---------------------------- MODULE Spec2Model ----------------------------
(***************************************************************************)
(* Sub-pixel extremum localisation of DIPlib                               *)
(* (src/src/analysis/subpixel_location.cpp).                               *)
(*                                                                         *)
(* dfloat values are modelled exactly: a value is a rational n/d, a value  *)
(* of the form s*exp(n/d) (the samples on which std::log is exact in the   *)
(* model), or NaN.  Floating-point rounding is not modelled.               *)
(***************************************************************************)
EXTENDS Integers, Sequences, FiniteSets, TLC

VARIABLES
    entry,       \* the function called: SubpixelLocation, SubpixelMaxima,
                 \* SubpixelMinima or MeanShift
    epsilonArg,  \* the epsilon the caller passed to MeanShift
    epsilon,     \* dfloat epsilon: the parameter of MeanShift, a local copy
    pt,          \* FloatArray pt (MeanShift)
    distance,    \* dfloat distance (MeanShift)
    in,          \* Image const& in: [forged, scalar, real, sizes, data]
    mask,        \* Image const& mask (SubpixelMaxima / SubpixelMinima)
    position,    \* UnsignedArray const& position
    polarity,    \* String const& polarity
    s_method,    \* String const& s_method
    solveSing,   \* what dip::Solve returns for a singular inconsistent system
    pc,          \* position of the running call in its code
    ii,          \* loop counter of the running call
    invert,      \* bool invert
    method,      \* SubpixelExtremumMethod method
    localExtrema, \* Image localExtrema: the label of every pixel, 0 for none
    measurement, \* Measurement measurement (one record per labelled region)
    out,         \* the value returned (a result, or an array of results)
    err,         \* the exception thrown, "" when none
    fitCalls,    \* the invocations of SubpixelLocationInternal and their results
    nReads       \* number of samples of `in` read so far

vars == <<entry, epsilonArg, epsilon, pt, distance, in, mask, position, polarity, s_method, solveSing, pc, ii, invert,
          method, localExtrema, measurement, out, err, fitCalls, nReads>>

(***************************************************************************)
(* Bounds of the model.                                                    *)
(***************************************************************************)
MaxVal == 1        \* samples are drawn from -MaxVal .. MaxVal
MaxLen == 4        \* 1D grids have 1 .. MaxLen samples
MaxShift == 2      \* components of the mean shift vectors are in -MaxShift .. MaxShift
MaxSteps == 4      \* interpolation steps of MeanShift that are followed
MaxOffset == 3     \* the peak offsets of the paraboloids are -MaxOffset/4 .. MaxOffset/4

(***************************************************************************)
(* dfloat arithmetic.                                                      *)
(***************************************************************************)
Abs(x) == IF x < 0 THEN -x ELSE x

RECURSIVE GCD(_, _)
GCD(a, b) == IF b = 0 THEN a ELSE GCD(b, a % b)

\* The rational n/d (d # 0) in lowest terms with a positive denominator.
Q(n, d) ==
    LET g == GCD(Abs(n), Abs(d))
        s == IF d < 0 THEN -1 ELSE 1
    IN  [k |-> "q", s |-> 1, n |-> (s * n) \div g, d |-> (s * d) \div g]

\* The value s * exp(n/d), s in {-1, 1}.
E(s, n, d) ==
    IF n = 0 THEN Q(s, 1)
    ELSE LET g == GCD(Abs(n), Abs(d))
             t == IF d < 0 THEN -1 ELSE 1
         IN  [k |-> "e", s |-> s, n |-> (t * n) \div g, d |-> (t * d) \div g]

NaN == [k |-> "nan", s |-> 1, n |-> 0, d |-> 1]

Zero == Q(0, 1)

IsNaN(a) == a.k = "nan"

\* a + b
Add(a, b) ==
    CASE IsNaN(a) \/ IsNaN(b) -> NaN
      [] a.k = "q" /\ b.k = "q" -> Q(a.n * b.d + b.n * a.d, a.d * b.d)

\* -a
Neg(a) ==
    CASE IsNaN(a) -> NaN
      [] a.k = "q" -> [a EXCEPT !.n = -a.n]
      [] a.k = "e" -> [a EXCEPT !.s = -a.s]

\* a - b
Sub(a, b) == Add(a, Neg(b))

\* a * b
Mul(a, b) ==
    CASE IsNaN(a) \/ IsNaN(b) -> NaN
      [] a.k = "q" /\ b.k = "q" -> Q(a.n * b.n, a.d * b.d)

\* a / b; every division of the code is guarded by a test b != 0
Div(a, b) ==
    CASE IsNaN(a) \/ IsNaN(b) -> NaN
      [] a.k = "q" /\ b.k = "q" /\ b.n # 0 -> Q(a.n * b.d, a.d * b.n)

\* k * a for an integer literal k
Scale(k, a) == Mul(Q(k, 1), a)

\* the sign of a value that is not NaN
Sgn(a) ==
    IF a.k = "e" THEN a.s
    ELSE IF a.n > 0 THEN 1 ELSE IF a.n < 0 THEN -1 ELSE 0

\* |a| < |b| for two values of the same nonzero sign
MagLt(a, b) ==
    CASE a.k = "q" /\ b.k = "q" -> Abs(a.n) * b.d < Abs(b.n) * a.d
      [] a.k = "e" /\ b.k = "e" -> a.n * b.d < b.n * a.d
      [] a.k = "q" /\ Abs(a.n) = a.d /\ b.k = "e" -> 0 < b.n
      [] a.k = "e" /\ b.k = "q" /\ Abs(b.n) = b.d -> a.n < 0

\* a < b; false when either is NaN
Lt(a, b) ==
    IF IsNaN(a) \/ IsNaN(b) THEN FALSE
    ELSE IF Sgn(a) # Sgn(b) THEN Sgn(a) < Sgn(b)
    ELSE IF Sgn(a) = 0 THEN FALSE
    ELSE IF Sgn(a) > 0 THEN MagLt(a, b) ELSE MagLt(b, a)

\* a > b
Gt(a, b) == Lt(b, a)

\* a == b; false when either is NaN
Eq(a, b) == ~IsNaN(a) /\ ~IsNaN(b) /\ a = b

\* a != b
Ne(a, b) == ~Eq(a, b)

\* a <= b and a >= b
Le(a, b) == Lt(a, b) \/ Eq(a, b)
Ge(a, b) == Le(b, a)

\* std::min( a, b ): ( b < a ) ? b : a
Min(a, b) == IF Lt(b, a) THEN b ELSE a

\* std::max( a, b ): ( a < b ) ? b : a
Max(a, b) == IF Lt(a, b) THEN b ELSE a

\* std::log( a ): exact on s*exp(q) with s > 0; NaN on negative values
Log(a) ==
    CASE IsNaN(a) -> NaN
      [] Sgn(a) < 0 -> NaN
      [] a.k = "e" -> Q(a.n, a.d)
      [] a.k = "q" /\ a.n = a.d -> Zero

\* std::exp( a )
Exp(a) ==
    CASE IsNaN(a) -> NaN
      [] a.k = "q" -> E(1, a.n, a.d)

(***************************************************************************)
(* Images.  Coordinates are 0-based as in the code; a coordinate tuple is  *)
(* a sequence with one entry per dimension.                                *)
(***************************************************************************)
\* in.Dimensionality()
Dimensionality(input) == Len(input.sizes)

\* all coordinate tuples of an image with the given sizes
Coords(sizes) ==
    LET m == CHOOSE v \in 0 .. 9 : (\A a \in 1 .. Len(sizes) : sizes[a] <= v + 1)
                                  /\ (v = 0 \/ \E a \in 1 .. Len(sizes) : sizes[a] = v + 1)
    IN  {p \in [1 .. Len(sizes) -> 0 .. m] : \A a \in 1 .. Len(sizes) : p[a] < sizes[a]}

\* *( in + offset ): the sample at coordinates p.  A read outside the image
\* has no defined value; it is marked NaN and excluded by ReadsInBounds.
Sample(input, p) == IF p \in DOMAIN input.data THEN input.data[p] ELSE NaN

\* the coordinates reached from p by `delta` strides along `axis`
Shift(p, axis, delta) == [p EXCEPT ![axis] = @ + delta]

\* Image::At< dfloat >( coords ): bounds-checked sample access
At(input, coords) ==
    IF \E a \in 1 .. Len(coords) : coords[a] >= input.sizes[a]
    THEN [err |-> "INDEX_OUT_OF_RANGE", value |-> Zero]
    ELSE [err |-> "", value |-> input.data[coords]]

\* FloatArray{ position }
FloatArray(p) == [a \in 1 .. Len(p) |-> Q(p[a], 1)]

(***************************************************************************)
(* quadratic_fit_3x3                                                       *)
(***************************************************************************)
\* dfloat w[] of quadratic_fit_3x3: 6 rows of 9 weights, as <<num, den>>
w3x3 ==
    << <<-2,3>>, <<4,3>>, <<-2,3>>, <<4,3>>, <<10,3>>, <<4,3>>, <<-2,3>>, <<4,3>>, <<-2,3>>,
       <<-1,1>>, <<0,1>>, <<1,1>>, <<-1,1>>, <<0,1>>, <<1,1>>, <<-1,1>>, <<0,1>>, <<1,1>>,
       <<-1,1>>, <<-1,1>>, <<-1,1>>, <<0,1>>, <<0,1>>, <<0,1>>, <<1,1>>, <<1,1>>, <<1,1>>,
       <<1,1>>, <<-2,1>>, <<1,1>>, <<1,1>>, <<-2,1>>, <<1,1>>, <<1,1>>, <<-2,1>>, <<1,1>>,
       <<1,1>>, <<1,1>>, <<1,1>>, <<-2,1>>, <<-2,1>>, <<-2,1>>, <<1,1>>, <<1,1>>, <<1,1>>,
       <<3,2>>, <<0,1>>, <<-3,2>>, <<0,1>>, <<0,1>>, <<0,1>>, <<-3,2>>, <<0,1>>, <<3,2>> >>

\* sum over jj < n of w[ row*n + jj ] * t[ jj ], accumulated from jj = 0
RECURSIVE WeightedSum(_, _, _, _, _)
WeightedSum(w, t, row, n, jj) ==
    IF jj = 0 THEN Zero
    ELSE Add(WeightedSum(w, t, row, n, jj - 1),
             Mul(Q(w[row * n + jj][1], w[row * n + jj][2]), t[jj]))

\* the single element of a singleton set: { F(v) : v \in {e} } evaluates e
\* once and binds its value
Only(S) == CHOOSE r \in S : TRUE

\* the least-squares coefficients a[ 0 .. rows-1 ] (here indexed from 1):
\* a[ ii ] = ( sum over jj of w[ kk++ ] * t[ jj ] ) / divisor
FitCoefficients(w, t, rows, n, divisor) ==
    LET row(r) == Div(WeightedSum(w, t, r - 1, n, n), Q(divisor, 1))
    IN  IF rows = 6 THEN << row(1), row(2), row(3), row(4), row(5), row(6) >>
        ELSE << row(1), row(2), row(3), row(4), row(5), row(6), row(7), row(8), row(9),
                row(10) >>

\* C19, mutant of lines 139 and 229: the window is half a pixel
OutOfWindowHalf(v) == Lt(v, Q(-1, 2)) \/ Gt(v, Q(1, 2))

\* the +/-0.75 window of the joint fits
OutOfWindow(v) == Lt(v, Q(-3, 4)) \/ Gt(v, Q(3, 4))

\* lines 139-146 of quadratic_fit_3x3: the window test and the value
Fit2Value(a, x, y) ==
    IF OutOfWindow(x) \/ OutOfWindow(y)
    THEN [ok |-> FALSE, x |-> x, y |-> y, val |-> Zero]
    ELSE [ok |-> TRUE, x |-> x, y |-> y,
          val |-> Add(Add(Add(Add(Add(a[1], Mul(a[2], x)), Mul(a[3], y)),
                      Mul(Mul(a[4], x), x)), Mul(Mul(a[5], y), y)), Mul(Mul(a[6], x), y))]

\* lines 128-134 of quadratic_fit_3x3: the determinant test and the offsets
Fit2Offsets(a) ==
    LET denom == Sub(Mul(a[6], a[6]), Mul(Scale(4, a[4]), a[5]))
    IN  IF Eq(denom, Zero) THEN [ok |-> FALSE, x |-> Zero, y |-> Zero, val |-> Zero]
        ELSE Only({Fit2Value(a, x, y) :
                      x \in {Div(Sub(Mul(Scale(2, a[5]), a[2]), Mul(a[6], a[3])), denom)},
                      y \in {Div(Sub(Mul(Scale(2, a[4]), a[3]), Mul(a[6], a[2])), denom)}})

\* bool quadratic_fit_3x3( t, &x, &y, &val ): [ok, x, y, val]; val is
\* only written when the fit is accepted
quadratic_fit_3x3(t) ==
    Only({Fit2Offsets(a) : a \in {FitCoefficients(w3x3, t, 6, 9, 6)}})

(***************************************************************************)
(* quadratic_fit_3x3x3                                                     *)
(***************************************************************************)
\* dfloat w[] of quadratic_fit_3x3x3: 10 rows of 27 weights, as <<num, den>>
w3x3x3 ==
    << <<-4,3>>, <<2,3>>, <<-4,3>>, <<2,3>>, <<8,3>>, <<2,3>>, <<-4,3>>, <<2,3>>, <<-4,3>>, <<2,3>>, <<8,3>>, <<2,3>>, <<8,3>>, <<14,3>>, <<8,3>>, <<2,3>>, <<8,3>>, <<2,3>>, <<-4,3>>, <<2,3>>, <<-4,3>>, <<2,3>>, <<8,3>>, <<2,3>>, <<-4,3>>, <<2,3>>, <<-4,3>>,
       <<-1,1>>, <<0,1>>, <<1,1>>, <<-1,1>>, <<0,1>>, <<1,1>>, <<-1,1>>, <<0,1>>, <<1,1>>, <<-1,1>>, <<0,1>>, <<1,1>>, <<-1,1>>, <<0,1>>, <<1,1>>, <<-1,1>>, <<0,1>>, <<1,1>>, <<-1,1>>, <<0,1>>, <<1,1>>, <<-1,1>>, <<0,1>>, <<1,1>>, <<-1,1>>, <<0,1>>, <<1,1>>,
       <<-1,1>>, <<-1,1>>, <<-1,1>>, <<0,1>>, <<0,1>>, <<0,1>>, <<1,1>>, <<1,1>>, <<1,1>>, <<-1,1>>, <<-1,1>>, <<-1,1>>, <<0,1>>, <<0,1>>, <<0,1>>, <<1,1>>, <<1,1>>, <<1,1>>, <<-1,1>>, <<-1,1>>, <<-1,1>>, <<0,1>>, <<0,1>>, <<0,1>>, <<1,1>>, <<1,1>>, <<1,1>>,
       <<-1,1>>, <<-1,1>>, <<-1,1>>, <<-1,1>>, <<-1,1>>, <<-1,1>>, <<-1,1>>, <<-1,1>>, <<-1,1>>, <<0,1>>, <<0,1>>, <<0,1>>, <<0,1>>, <<0,1>>, <<0,1>>, <<0,1>>, <<0,1>>, <<0,1>>, <<1,1>>, <<1,1>>, <<1,1>>, <<1,1>>, <<1,1>>, <<1,1>>, <<1,1>>, <<1,1>>, <<1,1>>,
       <<1,1>>, <<-2,1>>, <<1,1>>, <<1,1>>, <<-2,1>>, <<1,1>>, <<1,1>>, <<-2,1>>, <<1,1>>, <<1,1>>, <<-2,1>>, <<1,1>>, <<1,1>>, <<-2,1>>, <<1,1>>, <<1,1>>, <<-2,1>>, <<1,1>>, <<1,1>>, <<-2,1>>, <<1,1>>, <<1,1>>, <<-2,1>>, <<1,1>>, <<1,1>>, <<-2,1>>, <<1,1>>,
       <<1,1>>, <<1,1>>, <<1,1>>, <<-2,1>>, <<-2,1>>, <<-2,1>>, <<1,1>>, <<1,1>>, <<1,1>>, <<1,1>>, <<1,1>>, <<1,1>>, <<-2,1>>, <<-2,1>>, <<-2,1>>, <<1,1>>, <<1,1>>, <<1,1>>, <<1,1>>, <<1,1>>, <<1,1>>, <<-2,1>>, <<-2,1>>, <<-2,1>>, <<1,1>>, <<1,1>>, <<1,1>>,
       <<1,1>>, <<1,1>>, <<1,1>>, <<1,1>>, <<1,1>>, <<1,1>>, <<1,1>>, <<1,1>>, <<1,1>>, <<-2,1>>, <<-2,1>>, <<-2,1>>, <<-2,1>>, <<-2,1>>, <<-2,1>>, <<-2,1>>, <<-2,1>>, <<-2,1>>, <<1,1>>, <<1,1>>, <<1,1>>, <<1,1>>, <<1,1>>, <<1,1>>, <<1,1>>, <<1,1>>, <<1,1>>,
       <<3,2>>, <<3,2>>, <<3,2>>, <<0,1>>, <<0,1>>, <<0,1>>, <<-3,2>>, <<-3,2>>, <<-3,2>>, <<0,1>>, <<0,1>>, <<0,1>>, <<0,1>>, <<0,1>>, <<0,1>>, <<0,1>>, <<0,1>>, <<0,1>>, <<-3,2>>, <<-3,2>>, <<-3,2>>, <<0,1>>, <<0,1>>, <<0,1>>, <<3,2>>, <<3,2>>, <<3,2>>,
       <<3,2>>, <<0,1>>, <<-3,2>>, <<3,2>>, <<0,1>>, <<-3,2>>, <<3,2>>, <<0,1>>, <<-3,2>>, <<0,1>>, <<0,1>>, <<0,1>>, <<0,1>>, <<0,1>>, <<0,1>>, <<0,1>>, <<0,1>>, <<0,1>>, <<-3,2>>, <<0,1>>, <<3,2>>, <<-3,2>>, <<0,1>>, <<3,2>>, <<-3,2>>, <<0,1>>, <<3,2>>,
       <<3,2>>, <<0,1>>, <<-3,2>>, <<0,1>>, <<0,1>>, <<0,1>>, <<-3,2>>, <<0,1>>, <<3,2>>, <<3,2>>, <<0,1>>, <<-3,2>>, <<0,1>>, <<0,1>>, <<0,1>>, <<-3,2>>, <<0,1>>, <<3,2>>, <<3,2>>, <<0,1>>, <<-3,2>>, <<0,1>>, <<0,1>>, <<0,1>>, <<-3,2>>, <<0,1>>, <<3,2>> >>

\* the determinant of the 3x3 matrix b[ 0 .. 8 ] (here indexed from 1)
Det3(b) ==
    Add(Sub(Mul(b[1], Sub(Mul(b[5], b[9]), Mul(b[6], b[8]))),
            Mul(b[2], Sub(Mul(b[4], b[9]), Mul(b[6], b[7])))),
        Mul(b[3], Sub(Mul(b[4], b[8]), Mul(b[5], b[7]))))

\* matrix b with column `col` replaced by the vector c
ReplaceColumn(b, c, col) ==
    IF col = 1 THEN << c[1], b[2], b[3], c[2], b[5], b[6], c[3], b[8], b[9] >>
    ELSE IF col = 2 THEN << b[1], c[1], b[3], b[4], c[2], b[6], b[7], c[3], b[9] >>
    ELSE << b[1], b[2], c[1], b[4], b[5], c[2], b[7], b[8], c[3] >>

\* Solve( 3, 3, b, c, c ): the solution of b x = c.  A regular system has
\* its unique solution; a singular system with c = 0 has the solution 0 of
\* least norm; for any other singular system the result is solveSing.
Solve(b, c) ==
    IF \E i \in 1 .. 9 : IsNaN(b[i]) THEN <<NaN, NaN, NaN>>
    ELSE IF \E i \in 1 .. 3 : IsNaN(c[i]) THEN <<NaN, NaN, NaN>>
    ELSE Only({IF Ne(det, Zero)
               THEN << Div(Det3(ReplaceColumn(b, c, 1)), det),
                       Div(Det3(ReplaceColumn(b, c, 2)), det),
                       Div(Det3(ReplaceColumn(b, c, 3)), det) >>
               ELSE IF \A i \in 1 .. 3 : Eq(c[i], Zero) THEN <<Zero, Zero, Zero>>
               ELSE solveSing : det \in {Det3(b)}})

\* lines 232-241 of quadratic_fit_3x3x3: the window test and the value
Fit3Value(a, x, y, z) ==
    IF OutOfWindow(x) \/ OutOfWindow(y) \/ OutOfWindow(z)
    THEN [ok |-> FALSE, x |-> x, y |-> y, z |-> z, val |-> Zero]
    ELSE [ok |-> TRUE, x |-> x, y |-> y, z |-> z,
          val |-> Add(Add(Add(Add(Add(Add(Add(Add(Add(a[1], Mul(a[2], x)), Mul(a[3], y)),
                      Mul(a[4], z)), Mul(Mul(a[5], x), x)), Mul(Mul(a[6], y), y)),
                      Mul(Mul(a[7], z), z)), Mul(Mul(a[8], y), z)), Mul(Mul(a[9], z), x)),
                      Mul(Mul(a[10], x), y))]

\* lines 209-227 of quadratic_fit_3x3x3: the linear system and its solution
Fit3Offsets(a) ==
    Only({Fit3Value(a, c[1], c[2], c[3]) :
             c \in {Solve(<< Scale(2, a[5]), a[10], a[9],
                             a[10], Scale(2, a[6]), a[8],
                             a[9], a[8], Scale(2, a[7]) >>,
                          << Neg(a[2]), Neg(a[3]), Neg(a[4]) >>)}})

\* bool quadratic_fit_3x3x3( t, &x, &y, &z, &val ): [ok, x, y, z, val]
quadratic_fit_3x3x3(t) ==
    Only({Fit3Offsets(a) : a \in {FitCoefficients(w3x3x3, t, 10, 27, 18)}})

\* log_transform( t, n, invert )
log_transform(t, inverted) ==
    [i \in DOMAIN t |-> IF inverted THEN Log(Neg(t[i])) ELSE Log(t[i])]

(***************************************************************************)
(* ParseMethod and SubpixelLocationInternal                                *)
(***************************************************************************)
\* enum class SubpixelExtremumMethod
SubpixelExtremumMethod ==
    {"LINEAR", "PARABOLIC_SEPARABLE", "GAUSSIAN_SEPARABLE", "PARABOLIC", "GAUSSIAN", "INTEGER"}

\* C10, mutant of ParseMethod: the method is not changed for 1D images
ParseMethodNot1D(s, nDims) ==
    IF s = "linear" THEN [err |-> "", method |-> "LINEAR"]
    ELSE IF s = "parabolic" THEN [err |-> "", method |-> "PARABOLIC"]
    ELSE IF s = "parabolic_separable" THEN [err |-> "", method |-> "PARABOLIC_SEPARABLE"]
    ELSE IF s = "gaussian" THEN [err |-> "", method |-> "GAUSSIAN"]
    ELSE IF s = "gaussian_separable" THEN [err |-> "", method |-> "GAUSSIAN_SEPARABLE"]
    ELSE IF s = "integer" THEN [err |-> "", method |-> "INTEGER"]
    ELSE [err |-> "INVALID_FLAG", method |-> "none"]

\* SubpixelExtremumMethod ParseMethod( s_method, nDims ): [err, method]
ParseMethod(s, nDims) ==
    LET parsed ==
            CASE s = "linear" -> "LINEAR"
              [] s = "parabolic" -> "PARABOLIC"
              [] s = "parabolic_separable" -> "PARABOLIC_SEPARABLE"
              [] s = "gaussian" -> "GAUSSIAN"
              [] s = "gaussian_separable" -> "GAUSSIAN_SEPARABLE"
              [] s = "integer" -> "INTEGER"
              [] OTHER -> "none"
    IN  IF parsed = "none" THEN [err |-> "INVALID_FLAG", method |-> "none"]
        ELSE IF nDims = 1 /\ parsed = "PARABOLIC"
             THEN [err |-> "", method |-> "PARABOLIC_SEPARABLE"]
        ELSE IF nDims = 1 /\ parsed = "GAUSSIAN"
             THEN [err |-> "", method |-> "GAUSSIAN_SEPARABLE"]
        ELSE [err |-> "", method |-> parsed]

\* BooleanFromString( polarity, S::MINIMUM, S::MAXIMUM ): [err, value]
BooleanFromString(s, trueString, falseString) ==
    IF s = trueString THEN [err |-> "", value |-> TRUE]
    ELSE IF s = falseString THEN [err |-> "", value |-> FALSE]
    ELSE [err |-> "INVALID_FLAG", value |-> FALSE]

\* the three samples t[ 0 .. 2 ] along `axis` around p (here indexed from 1)
AxisSamples(input, p, axis) ==
    << Sample(input, Shift(p, axis, -1)), Sample(input, p), Sample(input, Shift(p, axis, 1)) >>

\* C11, mutant of the case LINEAR: the samples are not negated for a minimum
LinearAxisNoInvert(input, p, axis, inv) ==
    LET t == AxisSamples(input, p, axis)
        b == Min(Min(t[1], t[2]), t[3])
        u == << Sub(t[1], b), Sub(t[2], b), Sub(t[3], b) >>
        m == Add(Add(u[1], u[2]), u[3])
    IN  IF Ne(m, Zero) THEN Add(Q(p[axis], 1), Div(Sub(u[3], u[1]), m))
        ELSE Q(p[axis], 1)

\* C22, mutant of lines 327-331: the minimum is not subtracted
LinearAxisNoMinimum(input, p, axis, inv) ==
    LET s == AxisSamples(input, p, axis)
        t == IF inv THEN << Neg(s[1]), Neg(s[2]), Neg(s[3]) >> ELSE s
        m == Add(Add(t[1], t[2]), t[3])
    IN  IF Ne(m, Zero) THEN Add(Q(p[axis], 1), Div(Sub(t[3], t[1]), m))
        ELSE Q(p[axis], 1)

\* C29, mutant of line 331: the middle sample is left out of the sum m
LinearAxisNoCentre(input, p, axis, inv) ==
    LET s == AxisSamples(input, p, axis)
        t == IF inv THEN << Neg(s[1]), Neg(s[2]), Neg(s[3]) >> ELSE s
        b == Min(Min(t[1], t[2]), t[3])
        u == << Sub(t[1], b), Sub(t[2], b), Sub(t[3], b) >>
        m == Add(u[1], u[3])
    IN  IF Ne(m, Zero) THEN Add(Q(p[axis], 1), Div(Sub(u[3], u[1]), m))
        ELSE Q(p[axis], 1)

\* case LINEAR, one axis: the coordinate written to out.coordinates[ ii ]
LinearAxis(input, p, axis, inv) ==
    LET s == AxisSamples(input, p, axis)
        t == IF inv THEN << Neg(s[1]), Neg(s[2]), Neg(s[3]) >> ELSE s
        b == Min(Min(t[1], t[2]), t[3])
        u == << Sub(t[1], b), Sub(t[2], b), Sub(t[3], b) >>
        m == Add(Add(u[1], u[2]), u[3])
    IN  IF Ne(m, Zero) THEN Add(Q(p[axis], 1), Div(Sub(u[3], u[1]), m))
        ELSE Q(p[axis], 1)

\* C20, mutant of lines 350-364: the value is the middle sample of the axis
SeparableAxisNoValue(input, p, axis, m0) ==
    LET s == AxisSamples(input, p, axis)
        inverted == m0 = "GAUSSIAN_SEPARABLE" /\ Lt(s[2], Zero)
        t == IF m0 = "GAUSSIAN_SEPARABLE" THEN log_transform(s, inverted) ELSE s
        m == Add(Sub(t[1], Scale(2, t[2])), t[3])
        d == Sub(t[1], t[3])
    IN  IF Ne(m, Zero)
        THEN [coordinate |-> Add(Q(p[axis], 1), Div(d, Scale(2, m))), update |-> TRUE, b |-> s[2]]
        ELSE [coordinate |-> Q(p[axis], 1), update |-> FALSE, b |-> Zero]

\* C23, mutant of line 357: the offset is divided by m, not by 2 m
SeparableAxisWholeOffset(input, p, axis, m0) ==
    LET s == AxisSamples(input, p, axis)
        inverted == m0 = "GAUSSIAN_SEPARABLE" /\ Lt(s[2], Zero)
        t == IF m0 = "GAUSSIAN_SEPARABLE" THEN log_transform(s, inverted) ELSE s
        m == Add(Sub(t[1], Scale(2, t[2])), t[3])
        d == Sub(t[1], t[3])
        b0 == Sub(t[2], Div(Mul(d, d), Scale(8, m)))
        b1 == IF m0 = "GAUSSIAN_SEPARABLE"
              THEN (IF inverted THEN Neg(Exp(b0)) ELSE Exp(b0))
              ELSE b0
    IN  IF Ne(m, Zero)
        THEN [coordinate |-> Add(Q(p[axis], 1), Div(d, m)), update |-> TRUE, b |-> b1]
        ELSE [coordinate |-> Q(p[axis], 1), update |-> FALSE, b |-> Zero]

\* C30, mutant of line 358: the correction of the peak has the wrong sign
SeparableAxisPeakSign(input, p, axis, m0) ==
    LET s == AxisSamples(input, p, axis)
        inverted == m0 = "GAUSSIAN_SEPARABLE" /\ Lt(s[2], Zero)
        t == IF m0 = "GAUSSIAN_SEPARABLE" THEN log_transform(s, inverted) ELSE s
        m == Add(Sub(t[1], Scale(2, t[2])), t[3])
        d == Sub(t[1], t[3])
        b0 == Add(t[2], Div(Mul(d, d), Scale(8, m)))
        b1 == IF m0 = "GAUSSIAN_SEPARABLE"
              THEN (IF inverted THEN Neg(Exp(b0)) ELSE Exp(b0))
              ELSE b0
    IN  IF Ne(m, Zero)
        THEN [coordinate |-> Add(Q(p[axis], 1), Div(d, Scale(2, m))), update |-> TRUE, b |-> b1]
        ELSE [coordinate |-> Q(p[axis], 1), update |-> FALSE, b |-> Zero]

\* default case (separable fits), one axis: [coordinate, update, b], where
\* `update` tells whether out.value is updated with b
SeparableAxis(input, p, axis, m0) ==
    LET s == AxisSamples(input, p, axis)
        inverted == m0 = "GAUSSIAN_SEPARABLE" /\ Lt(s[2], Zero)
        t == IF m0 = "GAUSSIAN_SEPARABLE" THEN log_transform(s, inverted) ELSE s
        m == Add(Sub(t[1], Scale(2, t[2])), t[3])
        d == Sub(t[1], t[3])
        b0 == Sub(t[2], Div(Mul(d, d), Scale(8, m)))
        b1 == IF m0 = "GAUSSIAN_SEPARABLE"
              THEN (IF inverted THEN Neg(Exp(b0)) ELSE Exp(b0))
              ELSE b0
    IN  IF Ne(m, Zero)
        THEN [coordinate |-> Add(Q(p[axis], 1), Div(d, Scale(2, m))), update |-> TRUE, b |-> b1]
        ELSE [coordinate |-> Q(p[axis], 1), update |-> FALSE, b |-> Zero]

\* out.value after the separable loop has run over axes 1 .. n
RECURSIVE SeparableValue(_, _, _, _, _)
SeparableValue(input, p, m0, inv, n) ==
    IF n = 0 THEN Sample(input, p)
    ELSE LET prev == SeparableValue(input, p, m0, inv, n - 1)
             ax == SeparableAxis(input, p, n, m0)
         IN  IF ~ax.update THEN prev
             ELSE IF inv THEN Min(prev, ax.b) ELSE Max(prev, ax.b)

\* dfloat t[ 9 ]: the 3x3 neighbourhood, axis 0 fastest
Stencil2(input, p) ==
    [c \in 1 .. 9 |->
        Sample(input, << p[1] + ((c - 1) % 3) - 1, p[2] + ((c - 1) \div 3) - 1 >>)]

\* dfloat t[ 27 ]: the 3x3x3 neighbourhood, axis 0 fastest
Stencil3(input, p) ==
    [c \in 1 .. 27 |->
        Sample(input, << p[1] + ((c - 1) % 3) - 1,
                         p[2] + (((c - 1) \div 3) % 3) - 1,
                         p[3] + ((c - 1) \div 9) - 1 >>)]

\* C2, mutant of the clamp: the fitted value is reported as it is
JointClampMissing(raw, val, inv) == val

\* the clamp that ends the joint case: out.value against val
JointClamp(raw, val, inv) == IF inv THEN Min(raw, val) ELSE Max(raw, val)

\* C21, mutant of lines 402-407 and 434-439: the sign is not restored
JointValueNoSign(fit, m0, inverted) ==
    IF ~fit.ok THEN Zero
    ELSE IF m0 = "GAUSSIAN" THEN Exp(fit.val)
         ELSE fit.val

\* lines 399-408 and 430-440: val after the fit, the logarithm undone
JointValue(fit, m0, inverted) ==
    IF ~fit.ok THEN Zero
    ELSE IF m0 = "GAUSSIAN"
         THEN (IF inverted THEN Neg(Exp(fit.val)) ELSE Exp(fit.val))
         ELSE fit.val

\* lines 396-408: the result of the 2D joint case for the fit `fit`
Joint2Result(input, p, m0, inv, inverted, fit) ==
    [err |-> "",
     coordinates |-> IF fit.ok THEN << Add(Q(p[1], 1), fit.x), Add(Q(p[2], 1), fit.y) >>
                     ELSE FloatArray(p),
     value |-> JointClamp(Sample(input, p), JointValue(fit, m0, inverted), inv),
     accepted |-> fit.ok]

\* case PARABOLIC / GAUSSIAN with nd = 2
Joint2(input, p, m0, inv) ==
    LET s == Stencil2(input, p)
        inverted == m0 = "GAUSSIAN" /\ Lt(s[5], Zero)
        t == IF m0 = "GAUSSIAN" THEN log_transform(s, inverted) ELSE s
    IN  Only({Joint2Result(input, p, m0, inv, inverted, fit) :
                 fit \in {quadratic_fit_3x3(t)}})

\* lines 426-440: the result of the 3D joint case for the fit `fit`
Joint3Result(input, p, m0, inv, inverted, fit) ==
    [err |-> "",
     coordinates |-> IF fit.ok THEN << Add(Q(p[1], 1), fit.x), Add(Q(p[2], 1), fit.y),
                                      Add(Q(p[3], 1), fit.z) >>
                     ELSE FloatArray(p),
     value |-> JointClamp(Sample(input, p), JointValue(fit, m0, inverted), inv),
     accepted |-> fit.ok]

\* case PARABOLIC / GAUSSIAN with nd = 3
Joint3(input, p, m0, inv) ==
    LET s == Stencil3(input, p)
        inverted == m0 = "GAUSSIAN" /\ Lt(s[14], Zero)
        t == IF m0 = "GAUSSIAN" THEN log_transform(s, inverted) ELSE s
    IN  Only({Joint3Result(input, p, m0, inv, inverted, fit) :
                 fit \in {quadratic_fit_3x3x3(t)}})

\* lines 315-339, case LINEAR
LinearCase(input, p, m0, inv) ==
    [err |-> "",
     coordinates |-> [a \in 1 .. Dimensionality(input) |-> LinearAxis(input, p, a, inv)],
     value |-> Sample(input, p), accepted |-> TRUE]

\* lines 341-376, default case: PARABOLIC_SEPARABLE and GAUSSIAN_SEPARABLE
SeparableCase(input, p, m0, inv) ==
    [err |-> "",
     coordinates |-> [a \in 1 .. Dimensionality(input) |->
                         SeparableAxis(input, p, a, m0).coordinate],
     value |-> SeparableValue(input, p, m0, inv, Dimensionality(input)),
     accepted |-> TRUE]

\* C4, mutant of the joint case: a rejected fit is thrown as an error
JointCaseThrows(input, p, m0, inv) ==
    Only({IF r.accepted THEN r
          ELSE [err |-> "FIT_REJECTED", coordinates |-> << >>, value |-> Zero,
                accepted |-> FALSE] :
          r \in {IF Dimensionality(input) = 2 THEN Joint2(input, p, m0, inv)
                 ELSE IF Dimensionality(input) = 3 THEN Joint3(input, p, m0, inv)
                 ELSE [err |-> "ILLEGAL_DIMENSIONALITY", coordinates |-> << >>,
                       value |-> Zero, accepted |-> TRUE]}})

\* lines 378-454, case PARABOLIC / GAUSSIAN
JointCase(input, p, m0, inv) ==
    CASE Dimensionality(input) = 2 -> Joint2(input, p, m0, inv)
      [] Dimensionality(input) = 3 -> Joint3(input, p, m0, inv)
      [] OTHER -> [err |-> "ILLEGAL_DIMENSIONALITY", coordinates |-> << >>,
                   value |-> Zero, accepted |-> FALSE]

\* C9, mutant of the case INTEGER: the coordinates are not filled in
IntegerCaseEmpty(input, p, m0, inv) ==
    [err |-> "", coordinates |-> [a \in 1 .. Len(p) |-> Zero],
     value |-> Sample(input, p), accepted |-> TRUE]

\* lines 456-462, case INTEGER
IntegerCase(input, p, m0, inv) ==
    [err |-> "", coordinates |-> FloatArray(p), value |-> Sample(input, p),
     accepted |-> TRUE]

\* SubpixelLocationResult SubpixelLocationInternal( input, position, method,
\* invert ): [err, coordinates, value, accepted]; `accepted` records whether
\* a joint fit returned true (TRUE for the methods that have no rejection)
SubpixelLocationInternal(input, p, m0, inv) ==
    CASE m0 = "LINEAR" -> LinearCase(input, p, m0, inv)
      [] m0 \in {"PARABOLIC", "GAUSSIAN"} -> JointCase(input, p, m0, inv)
      [] m0 = "INTEGER" -> IntegerCase(input, p, m0, inv)
      [] OTHER -> SeparableCase(input, p, m0, inv)

\* what is recorded of one invocation of SubpixelLocationInternal
FitCall(input, p, m0, r) ==
    [position |-> p, raw |-> Sample(input, p), method |-> m0, accepted |-> r.accepted,
     err |-> r.err, coordinates |-> r.coordinates, value |-> r.value]

\* the number of samples SubpixelLocationInternal reads
InternalReads(nd, m0) ==
    CASE m0 = "INTEGER" -> 1
      [] m0 \in {"PARABOLIC", "GAUSSIAN"} -> IF nd = 2 THEN 10 ELSE IF nd = 3 THEN 28 ELSE 1
      [] OTHER -> 1 + 3 * nd

(***************************************************************************)
(* The inputs the calls are explored on.                                   *)
(***************************************************************************)
Vals == -MaxVal .. MaxVal

\* the backgrounds of the 1D images
Backgrounds == {-1, 0, 1}

\* the values of the two marked samples of an image: the fits of three and
\* more dimensions are explored on the three values -1, 0, 1
ValsOf(sizes) == IF Len(sizes) >= 3 THEN Backgrounds ELSE Vals

\* the sample built from the integer v: v itself on a "lin" image, and
\* sg * exp(v) on an "exp" image
MakeSample(kind, sg, v) == IF kind = "lin" THEN Q(v, 1) ELSE E(sg, v, 1)

\* the offset of coordinates p in an image with normal strides
RECURSIVE LinearIndex(_, _, _)
LinearIndex(p, sizes, a) ==
    IF a > Len(sizes) THEN 0 ELSE p[a] + sizes[a] * LinearIndex(p, sizes, a + 1)

\* the middle pixel of an image
Centre(sizes) == [a \in 1 .. Len(sizes) |-> sizes[a] \div 2]

\* a forged real scalar image with the given samples
Forged(sizes, data) ==
    [forged |-> TRUE, scalar |-> TRUE, real |-> TRUE, sizes |-> sizes, data |-> data]

\* an image whose samples all differ: sample number i holds i - 1
Ramp(sizes, kind, sg) ==
    Forged(sizes, [p \in Coords(sizes) |->
                      MakeSample(kind, sg, LinearIndex(p, sizes, 1) - 1)])

\* a constant image bg with the sample c at pa and the sample w at pb;
\* on an "exp" image pa has sign sgA and every other sample sign sgR
TwoPoint(sizes, kind, sgA, sgR, pa, c, pb, w, bg) ==
    Forged(sizes, [p \in Coords(sizes) |->
                      IF p = pa THEN MakeSample(kind, sgA, c)
                      ELSE IF p = pb THEN MakeSample(kind, sgR, w)
                      ELSE MakeSample(kind, sgR, bg)])

\* images that fail a precondition
NotForged == [forged |-> FALSE, scalar |-> TRUE, real |-> TRUE, sizes |-> << >>, data |-> << >>]
NotScalar == [Ramp(<<3>>, "lin", 1) EXCEPT !.scalar = FALSE]
NotReal == [Ramp(<<3>>, "lin", 1) EXCEPT !.real = FALSE]
NotForgedNotScalar == [NotForged EXCEPT !.scalar = FALSE, !.real = FALSE]
NotScalarNotReal == [NotScalar EXCEPT !.real = FALSE]
ZeroD == Forged(<< >>, [p \in {<< >>} |-> Q(1, 1)])
ZeroDNotReal == [ZeroD EXCEPT !.real = FALSE]

\* the sizes of the images with distinct samples
RampSizes ==
    {<<n>> : n \in 1 .. MaxLen} \cup
    {<<3, 3>>, <<1, 3>>, <<3, 2>>, <<4, 3>>, <<3, 3, 3>>, <<3, 3, 3, 3>>}

\* the second pixel of a two-point image: a neighbour of the centre
Neighbours(sizes) ==
    {p \in Coords(sizes) :
        /\ p # Centre(sizes)
        /\ \A a \in 1 .. Len(sizes) : p[a] \in {1, 2}
        /\ Len(sizes) >= 4 => \A a \in 2 .. Len(sizes) : p[a] = 1}

\* the two-point images of one size: every background in 1D, background 0
\* in more dimensions
TwoPointImages(sizes, kind, sgA, sgR) ==
    {TwoPoint(sizes, kind, sgA, sgR, Centre(sizes), c, pb, w, bg) :
        c \in ValsOf(sizes), w \in ValsOf(sizes), pb \in Neighbours(sizes),
        bg \in IF Len(sizes) = 1 THEN Backgrounds ELSE {0}}

TwoPointSizes == {<<n>> : n \in 3 .. MaxLen} \cup {<<3, 3>>, <<3, 3, 3>>, <<3, 3, 3, 3>>}

\* the sign patterns of the "exp" images: <<sign at pa, sign elsewhere>>
SignPatterns == {<<1, 1>>, <<-1, -1>>, <<1, -1>>}

\* a 1D image whose samples fall unevenly around the middle one, which is
\* not an extremum: 2 MaxVal, 0, -MaxVal
Skew == Forged(<<3>>, [p \in Coords(<<3>>) |-> Q((1 - p[1]) * MaxVal + (IF p[1] = 0 THEN MaxVal ELSE 0), 1)])

\* [image, kind] pairs fitted at their centre
FitImages ==
    {[image |-> g, kind |-> "lin"] :
        g \in UNION {TwoPointImages(sz, "lin", 1, 1) : sz \in TwoPointSizes} \cup {Skew}} \cup
    {[image |-> g, kind |-> "exp"] :
        g \in UNION {TwoPointImages(sz, "exp", sp[1], sp[2]) :
                        sz \in TwoPointSizes, sp \in SignPatterns}}

\* [image, kind] pairs explored at every position
RampImages ==
    {[image |-> Ramp(sz, "lin", 1), kind |-> "lin"] : sz \in RampSizes} \cup
    {[image |-> Ramp(sz, "exp", sg), kind |-> "exp"] : sz \in RampSizes, sg \in {1, -1}}

\* positions of the right length: in bounds or one past the end on up to
\* two axes away from the centre
PositionsOf(sizes) ==
    {p \in [1 .. Len(sizes) -> 0 .. MaxLen + 1] :
        /\ \A a \in 1 .. Len(sizes) : p[a] <= sizes[a]
        /\ Cardinality({a \in 1 .. Len(sizes) : p[a] # Centre(sizes)[a]}) <= 2}

\* positions of a wrong length
WrongLength(sizes) == {Append(Centre(sizes), 1)} \cup (IF Len(sizes) > 1 THEN {<<1>>} ELSE {<< >>})

\* the method names tried on an image: the arithmetic on raw samples is
\* modelled on "lin" images, the logarithm on "exp" images
MethodNames(kind) ==
    IF kind = "lin" THEN {"linear", "parabolic", "parabolic_separable", "integer", "bogus"}
    ELSE {"gaussian", "gaussian_separable", "integer", "bogus"}

PolarityNames == {"maximum", "minimum", "bogus"}

\* what Solve may return for a singular system that has no solution 0
SolveOutcomes == {<<Zero, Zero, Zero>>, <<Q(1, 1), Zero, Zero>>}

\* the mask argument left out: a raw image
NoMask == [forged |-> FALSE, scalar |-> TRUE, binary |-> TRUE, sizes |-> << >>, data |-> << >>]

\* a forged binary scalar mask image
ForgedMask(sizes, data) ==
    [forged |-> TRUE, scalar |-> TRUE, binary |-> TRUE, sizes |-> sizes, data |-> data]

\* a constant image bg with the sample c at pa and the sample w on the
\* pixels B
TwoRegion(sizes, kind, sgA, sgR, pa, c, B, w, bg) ==
    Forged(sizes, [p \in Coords(sizes) |->
                      IF p = pa THEN MakeSample(kind, sgA, c)
                      ELSE IF p \in B THEN MakeSample(kind, sgR, w)
                      ELSE MakeSample(kind, sgR, bg)])

\* the layouts of the images searched for extrema: a pixel pa and a second
\* region B, which is a pixel, a pair of pixels or the column of the pixels
\* with p[1] = 3
ExtremaShapes ==
    {[sizes |-> <<MaxLen + 1>>, pa |-> <<1>>, B |-> {<<x>>}] : x \in {2, 3}} \cup
    {[sizes |-> <<MaxLen + 2>>, pa |-> <<MaxLen>>, B |-> {<<1>>, <<2>>}]} \cup
    {[sizes |-> <<5, 3>>, pa |-> <<1, 1>>, B |-> {<<x, 1>>}] : x \in {2, 3}} \cup
    {[sizes |-> <<5, 3>>, pa |-> <<1, 1>>, B |-> {<<3, y>> : y \in 0 .. 2}],
     [sizes |-> <<4, 3, 3>>, pa |-> <<1, 1, 1>>, B |-> {<<2, 1, 1>>}],
     [sizes |-> <<3, 3, 3>>, pa |-> <<1, 1, 1>>, B |-> {<<2, 1, 1>>}],
     [sizes |-> <<3, 3, 3, 3>>, pa |-> <<1, 1, 1, 1>>, B |-> {<<2, 1, 1, 1>>}]}

\* the images of one layout
ShapeImages(sh, kind, sgA, sgR) ==
    {TwoRegion(sh.sizes, kind, sgA, sgR, sh.pa, c, sh.B, w, bg) :
        c \in ValsOf(sh.sizes), w \in ValsOf(sh.sizes),
        bg \in IF Len(sh.sizes) = 1 THEN Backgrounds ELSE {0}}

\* [image, kind, pa] triples searched for extrema
ExtremaImages ==
    UNION {{[image |-> g, kind |-> "lin", pa |-> sh.pa] : g \in ShapeImages(sh, "lin", 1, 1)} \cup
           {[image |-> g, kind |-> "exp", pa |-> sh.pa] :
               g \in ShapeImages(sh, "exp", 1, 1) \cup ShapeImages(sh, "exp", -1, -1)} :
           sh \in ExtremaShapes}

\* the masks tried on an image: none, one that hides the pixel pa, one of a
\* single pixel that is expanded, and one of a wrong size
MasksFor(g, pa) ==
    IF Len(g.sizes) > 2 THEN {NoMask}
    ELSE {NoMask,
          ForgedMask(g.sizes, [p \in Coords(g.sizes) |-> p # pa]),
          ForgedMask([a \in 1 .. Len(g.sizes) |-> 1],
                     [p \in Coords([a \in 1 .. Len(g.sizes) |-> 1]) |-> TRUE]),
          ForgedMask([a \in 1 .. Len(g.sizes) |-> 2],
                     [p \in Coords([a \in 1 .. Len(g.sizes) |-> 2]) |-> TRUE])}

(***************************************************************************)
(* SubpixelLocation( in, position, polarity, s_method )                    *)
(***************************************************************************)
\* a SubpixelLocationResult
Result(coordinates, value) == [coordinates |-> coordinates, value |-> value]

\* DIP_THROW: the call ends with the exception e and returns nothing
Throw(e) == pc' = "thrown" /\ err' = e /\ out' = << >>

\* the inputs of one call of SubpixelLocation
LocationInputs(g, kind, p, pol, m, sing) ==
    /\ entry = "SubpixelLocation"
    /\ epsilonArg = Zero
    /\ epsilon = Zero
    /\ pt = << >>
    /\ distance = Zero
    /\ in = g
    /\ mask = NoMask
    /\ position = p
    /\ polarity = pol
    /\ s_method = m
    /\ solveSing = sing
    /\ pc = "SL_forged"
    /\ ii = 0
    /\ invert = FALSE
    /\ method = "none"
    /\ localExtrema = << >>
    /\ measurement = << >>
    /\ out = << >>
    /\ err = ""
    /\ fitCalls = << >>
    /\ nReads = 0

\* the inputs of one call of SubpixelMaxima or SubpixelMinima
ExtremaInputs(g, msk, m, inv) ==
    /\ entry = (IF inv THEN "SubpixelMinima" ELSE "SubpixelMaxima")
    /\ epsilonArg = Zero
    /\ epsilon = Zero
    /\ pt = << >>
    /\ distance = Zero
    /\ in = g
    /\ mask = msk
    /\ position = << >>
    /\ polarity = IF inv THEN "minimum" ELSE "maximum"
    /\ s_method = m
    /\ solveSing = <<Zero, Zero, Zero>>
    /\ pc = "SE_check"
    /\ ii = 0
    /\ invert = inv
    /\ method = "none"
    /\ localExtrema = << >>
    /\ measurement = << >>
    /\ out = << >>
    /\ err = ""
    /\ fitCalls = << >>
    /\ nReads = 0

\* a forged real vector field: data gives the vector at each pixel
Field(sizes, tensor, data) ==
    [forged |-> TRUE, scalar |-> tensor = 1, real |-> TRUE, sizes |-> sizes,
     tensor |-> tensor, data |-> data]

\* the components of the vectors of the fields
ShiftVals == -MaxShift .. MaxShift

\* the 1D fields of 3 pixels, and two that hold a NaN
Fields1D ==
    {Field(<<3>>, 1, [p \in Coords(<<3>>) |-> << Q(f[p[1] + 1], 1) >>]) :
        f \in [1 .. 3 -> ShiftVals]} \cup
    {Field(<<3>>, 1, [p \in Coords(<<3>>) |->
                         IF p = <<1>> THEN << NaN >> ELSE << Q(v * (1 - p[1]), 1) >>]) :
        v \in {0, 1}}

\* the 2D fields of 2x2 pixels: every vector points to the pixel t, or to
\* the next pixel around the grid, scaled by k
Fields2D ==
    {Field(<<2, 2>>, 2, [p \in Coords(<<2, 2>>) |->
                            << Q(k * (t[1] - p[1]), 1), Q(k * (t[2] - p[2]), 1) >>]) :
        t \in Coords(<<2, 2>>), k \in 1 .. MaxShift} \cup
    {Field(<<2, 2>>, 2, [p \in Coords(<<2, 2>>) |->
                            IF p = <<0, 0>> THEN << Q(1, 1), Zero >>
                            ELSE IF p = <<1, 0>> THEN << Zero, Q(1, 1) >>
                            ELSE IF p = <<1, 1>> THEN << Q(-1, 1), Zero >>
                            ELSE << Zero, Q(-1, 1) >>])}

\* fields that fail a precondition
FieldNotForged == [Field(<< >>, 1, << >>) EXCEPT !.forged = FALSE]
FieldTensorMismatch ==
    Field(<<3>>, 2, [p \in Coords(<<3>>) |-> << Zero, Zero >>])
FieldNotReal ==
    [Field(<<3>>, 1, [p \in Coords(<<3>>) |-> << Zero >>]) EXCEPT !.real = FALSE]
FieldTensorMismatchNotReal == [FieldTensorMismatch EXCEPT !.real = FALSE]
InvalidFields ==
    {FieldNotForged, FieldTensorMismatch, FieldNotReal, FieldTensorMismatchNotReal}

\* the start coordinates tried on a field: its pixels, and a wrong length
StartsOf(sizes) ==
    {FloatArray(p) : p \in Coords(sizes)} \cup {FloatArray(Append(Centre(sizes), 1))}

\* the values of epsilon
Epsilons == {Q(-1, 1), Zero, Q(1, 2), Q(3, 2), Q(3, 1)}

\* the inputs of one call of MeanShift
MeanShiftInputs(field, start, eps) ==
    /\ entry = "MeanShift"
    /\ epsilonArg = eps
    /\ epsilon = eps
    /\ pt = << >>
    /\ distance = Zero
    /\ in = field
    /\ mask = NoMask
    /\ position = start
    /\ polarity = ""
    /\ s_method = ""
    /\ solveSing = <<Zero, Zero, Zero>>
    /\ pc = "MS_forged"
    /\ ii = 0
    /\ invert = FALSE
    /\ method = "none"
    /\ localExtrema = << >>
    /\ measurement = << >>
    /\ out = << >>
    /\ err = ""
    /\ fitCalls = << >>
    /\ nReads = 0

\* p1 of the doctest: x * x
p1(x) == Mul(x, x)

\* the sum of p1( x[a] - c[a] ) over the axes 1 .. n
RECURSIVE SquaredDistance(_, _, _)
SquaredDistance(x, c, n) ==
    IF n = 0 THEN Zero
    ELSE Add(SquaredDistance(x, c, n - 1), p1(Sub(Q(x[n], 1), c[n])))

\* p2 and p3 of the doctest on an image: the paraboloid of height v whose
\* peak is at c from the middle pixel
Paraboloid(sizes, c, v) ==
    Forged(sizes, [p \in Coords(sizes) |->
                      Sub(v, SquaredDistance([a \in 1 .. Len(sizes) |-> p[a] - 1], c,
                                             Len(sizes)))])

\* the offsets of the peaks: the quarters up to MaxOffset / 4
Offsets == {Q(k, 4) : k \in -MaxOffset .. MaxOffset}

\* the paraboloids fitted at their middle pixel; in 3D the offset along the
\* last axis is the lowest one or a half
ParaboloidImages ==
    {Paraboloid(<<3, 3>>, << cx, cy >>, Q(4, 1)) : cx \in Offsets, cy \in Offsets} \cup
    {Paraboloid(<<3, 3, 3>>, << cx, cy, cz >>, Q(16, 1)) :
        cx \in Offsets, cy \in Offsets, cz \in {Q(-MaxOffset, 4), Q(1, 2)}}

\* p2 and p3 of the Gaussian doctest on an image: the bump of height
\* sg * exp(r) whose peak is at c from the middle pixel, v * g1(x - cx) * ...
\* with g1(x) = exp(-x^2 / 2)
GaussianBump(sizes, c, r, sg) ==
    Forged(sizes, [p \in Coords(sizes) |->
                      Only({E(sg, e.n, e.d) :
                            e \in {Sub(r, Div(SquaredDistance([a \in 1 .. Len(sizes) |-> p[a] - 1],
                                                              c, Len(sizes)), Q(2, 1)))}})])

\* the Gaussian bumps fitted at their middle pixel, positive and negated;
\* in 3D a few offsets only
GaussianImages ==
    {GaussianBump(<<3, 3>>, << cx, cy >>, Q(1, 1), sg) :
        cx \in Offsets, cy \in Offsets, sg \in {1, -1}} \cup
    {GaussianBump(<<3, 3, 3>>, << cx, Q(1, 4), cz >>, Q(1, 1), sg) :
        cx \in Offsets, cz \in {Q(-MaxOffset, 4), Q(1, 2)}, sg \in {1, -1}}

\* Solve's singular outcome matters to the joint fits of 3D images only
SolveOutcomesFor(g, m) ==
    IF Len(g.sizes) = 3 /\ m \in {"parabolic", "gaussian"} THEN SolveOutcomes
    ELSE {<<Zero, Zero, Zero>>}

InvalidImages ==
    {NotForged, NotScalar, NotReal, NotForgedNotScalar, NotScalarNotReal, ZeroD, ZeroDNotReal}

Init ==
    \/ \E f \in FitImages, pol \in {"maximum", "minimum"} :
         \E m \in MethodNames(f.kind) : \E sing \in SolveOutcomesFor(f.image, m) :
            LocationInputs(f.image, f.kind, Centre(f.image.sizes), pol, m, sing)
    \/ \E f \in RampImages, pol \in PolarityNames :
         \E m \in MethodNames(f.kind) :
         \E p \in PositionsOf(f.image.sizes) \cup WrongLength(f.image.sizes) :
            LocationInputs(f.image, f.kind, p, pol, m, <<Zero, Zero, Zero>>)
    \/ \E g \in InvalidImages, p \in {<< >>, <<1>>}, m \in {"linear", "bogus"} :
         \E pol \in {"maximum", "bogus"} :
            LocationInputs(g, "lin", p, pol, m, <<Zero, Zero, Zero>>)
    \/ \E g \in ParaboloidImages, pol \in {"maximum", "minimum"} :
         \E m \in {"parabolic", "parabolic_separable"} :
            LocationInputs(g, "lin", Centre(g.sizes), pol, m, <<Zero, Zero, Zero>>)
    \/ \E g \in GaussianImages, pol \in {"maximum", "minimum"} :
            LocationInputs(g, "exp", Centre(g.sizes), pol, "gaussian", <<Zero, Zero, Zero>>)
    \/ \E f \in ExtremaImages, inv \in BOOLEAN :
         \E m \in MethodNames(f.kind) : \E msk \in MasksFor(f.image, f.pa) :
            ExtremaInputs(f.image, msk, m, inv)
    \/ \E g \in InvalidImages \cup {Ramp(sz, "lin", 1) : sz \in {<<2>>, <<3, 3>>, <<3, 3, 3, 3>>}} :
         \E m \in {"parabolic", "bogus"}, inv \in BOOLEAN :
            ExtremaInputs(g, NoMask, m, inv)
    \/ \E f \in Fields1D \cup Fields2D, eps \in Epsilons :
         \E start \in StartsOf(f.sizes) :
            MeanShiftInputs(f, start, eps)
    \/ \E f \in InvalidFields, eps \in {Zero, Q(1, 2)} :
         \E start \in {<< >>, << Zero >>, << Zero, Zero >>} :
            MeanShiftInputs(f, start, eps)

\* line 477: DIP_THROW_IF( !in.IsForged(), E::IMAGE_NOT_FORGED )
SL_CheckForged ==
    /\ pc = "SL_forged"
    /\ IF ~in.forged THEN Throw("IMAGE_NOT_FORGED")
       ELSE pc' = "SL_scalar" /\ UNCHANGED <<err, out>>
    /\ UNCHANGED <<entry, epsilonArg, epsilon, pt, distance, in, mask, position, polarity, s_method, solveSing, ii, invert,
                   method, localExtrema, measurement, fitCalls, nReads>>

\* line 478: DIP_THROW_IF( !in.IsScalar(), E::IMAGE_NOT_SCALAR )
SL_CheckScalar ==
    /\ pc = "SL_scalar"
    /\ IF ~in.scalar THEN Throw("IMAGE_NOT_SCALAR")
       ELSE pc' = "SL_real" /\ UNCHANGED <<err, out>>
    /\ UNCHANGED <<entry, epsilonArg, epsilon, pt, distance, in, mask, position, polarity, s_method, solveSing, ii, invert,
                   method, localExtrema, measurement, fitCalls, nReads>>

\* C8, mutant of the check of the sample type: the check is left out
SL_CheckRealMissing ==
    /\ pc = "SL_real"
    /\ pc' = "SL_dims"
    /\ UNCHANGED <<entry, epsilonArg, epsilon, pt, distance, in, mask, position, polarity, s_method, solveSing, ii,
                   invert, method, localExtrema, measurement, out, err, fitCalls,
                   nReads>>

\* line 479: DIP_THROW_IF( !in.DataType().IsReal(), E::DATA_TYPE_NOT_SUPPORTED )
SL_CheckReal ==
    /\ pc = "SL_real"
    /\ IF ~in.real THEN Throw("DATA_TYPE_NOT_SUPPORTED")
       ELSE pc' = "SL_dims" /\ UNCHANGED <<err, out>>
    /\ UNCHANGED <<entry, epsilonArg, epsilon, pt, distance, in, mask, position, polarity, s_method, solveSing, ii, invert,
                   method, localExtrema, measurement, fitCalls, nReads>>

\* lines 480-481: DIP_THROW_IF( nDims < 1, E::DIMENSIONALITY_NOT_SUPPORTED )
SL_CheckDims ==
    /\ pc = "SL_dims"
    /\ IF Dimensionality(in) < 1 THEN Throw("DIMENSIONALITY_NOT_SUPPORTED")
       ELSE pc' = "SL_length" /\ UNCHANGED <<err, out>>
    /\ UNCHANGED <<entry, epsilonArg, epsilon, pt, distance, in, mask, position, polarity, s_method, solveSing, ii, invert,
                   method, localExtrema, measurement, fitCalls, nReads>>

\* line 482: DIP_THROW_IF( position.size() != nDims, E::ARRAY_PARAMETER_WRONG_LENGTH )
SL_CheckLength ==
    /\ pc = "SL_length"
    /\ IF Len(position) # Dimensionality(in)
       THEN Throw("ARRAY_PARAMETER_WRONG_LENGTH") /\ UNCHANGED ii
       ELSE pc' = "SL_border" /\ ii' = 0 /\ UNCHANGED <<err, out>>
    /\ UNCHANGED <<entry, epsilonArg, epsilon, pt, distance, in, mask, position, polarity, s_method, solveSing, invert,
                   method, localExtrema, measurement, fitCalls, nReads>>

\* C1, mutant of the border test: the last sample of an axis is not border
OnBorderOffByOne(input, p, a) == p[a] < 1 \/ p[a] >= input.sizes[a]

\* C27, mutant of line 485: the far border is not tested
OnBorderNearOnly(input, p, a) == p[a] < 1

\* line 485: the test that axis a of p is on the image border
OnBorder(input, p, a) == p[a] < 1 \/ p[a] >= input.sizes[a] - 1

\* lines 483-492: one iteration of the border loop (ii counts from 0)
SL_BorderLoop ==
    /\ pc = "SL_border"
    /\ IF ii >= Dimensionality(in)
       THEN pc' = "SL_parse" /\ UNCHANGED <<ii, err, out, nReads>>
       ELSE IF OnBorder(in, position, ii + 1)
            THEN IF position[ii + 1] >= in.sizes[ii + 1]
                 THEN Throw("Initial coordinates out of image bounds")
                      /\ UNCHANGED <<ii, nReads>>
                 ELSE LET v == At(in, position)
                      IN  IF v.err # ""
                          THEN Throw(v.err) /\ UNCHANGED <<ii, nReads>>
                          ELSE /\ out' = << Result(FloatArray(position), v.value) >>
                               /\ pc' = "done"
                               /\ nReads' = nReads + 1
                               /\ UNCHANGED <<ii, err>>
            ELSE ii' = ii + 1 /\ UNCHANGED <<pc, err, out, nReads>>
    /\ UNCHANGED <<entry, epsilonArg, epsilon, pt, distance, in, mask, position, polarity, s_method, solveSing, invert,
                   method, localExtrema, measurement, fitCalls>>

\* lines 493-498: polarity and method are parsed, in this order
SL_Parse ==
    /\ pc = "SL_parse"
    /\ LET b == BooleanFromString(polarity, "minimum", "maximum")
           m == ParseMethod(s_method, Dimensionality(in))
       IN  IF b.err # "" THEN Throw(b.err) /\ UNCHANGED <<invert, method>>
           ELSE IF m.err # "" THEN Throw(m.err) /\ invert' = b.value /\ UNCHANGED method
           ELSE /\ invert' = b.value
                /\ method' = m.method
                /\ pc' = "SL_call"
                /\ UNCHANGED <<err, out>>
    /\ UNCHANGED <<entry, epsilonArg, epsilon, pt, distance, in, mask, position, polarity, s_method, solveSing, ii,
                   localExtrema, measurement, fitCalls, nReads>>

\* lines 499-502: DIP_OVL_CALL_ASSIGN_REAL( out, SubpixelLocationInternal, ... )
SL_Call ==
    /\ pc = "SL_call"
    /\ \E r \in {SubpixelLocationInternal(in, position, method, invert)} :
           /\ fitCalls' = Append(fitCalls, FitCall(in, position, method, r))
           /\ nReads' = nReads + InternalReads(Dimensionality(in), method)
           /\ IF r.err # "" THEN Throw(r.err)
              ELSE /\ out' = << Result(r.coordinates, r.value) >>
                   /\ pc' = "done"
                   /\ UNCHANGED err
    /\ UNCHANGED <<entry, epsilonArg, epsilon, pt, distance, in, mask, position, polarity, s_method, solveSing, ii, invert,
                   method, localExtrema, measurement>>

(***************************************************************************)
(* The collaborators of SubpixelExtrema: the detector of local extrema,    *)
(* the mask, the border and the measurement tool.                          *)
(***************************************************************************)
\* two pixels are neighbours under the full connectivity (connectivity nDims)
Adjacent(p, q) ==
    p # q /\ \A a \in 1 .. Len(p) : p[a] - q[a] \in {-1, 0, 1}

\* the pixels of P connected to S, F being the pixels added last
RECURSIVE Grow(_, _, _)
Grow(P, S, F) ==
    Only({IF N = {} THEN S ELSE Grow(P, S \cup N, N) :
             N \in {{q \in P \ S : \E f \in F : Adjacent(q, f)}}})

\* the plateau of p: the connected pixels that hold the value of p
Plateau(input, p) ==
    Grow({q \in DOMAIN input.data : input.data[q] = input.data[p]}, {p}, {p})

\* the plateaus that cover the pixels P, by their first pixel in raster order
RECURSIVE Plateaus(_, _)
Plateaus(input, P) ==
    IF P = {} THEN << >>
    ELSE Only({<<C>> \o Plateaus(input, P \ C) :
                  C \in {Plateau(input,
                                 CHOOSE p \in P : \A q \in P :
                                    LinearIndex(p, input.sizes, 1)
                                       <= LinearIndex(q, input.sizes, 1))}})

\* a plateau is a local extremum when no neighbour of it is more extreme
IsExtremum(input, inv, C) ==
    \A q \in C : \A r \in DOMAIN input.data :
        Adjacent(q, r) =>
            ~(IF inv THEN Lt(input.data[r], input.data[q])
                     ELSE Gt(input.data[r], input.data[q]))

\* Maxima / Minima( in, localExtrema, nDims, "labels" ): the label image
LabelExtrema(input, inv) ==
    Only({[p \in DOMAIN input.data |->
              IF \E n \in 1 .. Len(regs) : p \in regs[n]
              THEN CHOOSE n \in 1 .. Len(regs) : p \in regs[n]
              ELSE 0] :
          regs \in {SelectSeq(Plateaus(input, DOMAIN input.data),
                              LAMBDA C : IsExtremum(input, inv, C))}})

\* mask.CheckIsMask( sizes, DO_ALLOW, DO_THROW ): "" or the exception
CheckIsMask(m, sizes) ==
    IF ~m.scalar THEN "MASK_NOT_SCALAR"
    ELSE IF ~m.binary THEN "MASK_NOT_BINARY"
    ELSE IF Len(m.sizes) > Len(sizes) THEN "MASK_TOO_MANY_DIMENSIONS"
    ELSE IF \E a \in 1 .. Len(m.sizes) : m.sizes[a] # sizes[a] /\ m.sizes[a] # 1
         THEN "SIZES_DONT_MATCH"
    ELSE ""

\* the sample of the singleton-expanded mask at p
MaskAt(m, p) ==
    m.data[[a \in 1 .. Len(m.sizes) |-> IF m.sizes[a] = 1 THEN 0 ELSE p[a]]]

\* localExtrema.Mask( mask )
ApplyMask(labels, m) ==
    [p \in DOMAIN labels |-> IF MaskAt(m, p) THEN labels[p] ELSE 0]

\* SetBorder( localExtrema ): the pixels on the image border are set to 0
SetBorder(labels, sizes) ==
    [p \in DOMAIN labels |->
        IF \E a \in 1 .. Len(sizes) : p[a] = 0 \/ p[a] = sizes[a] - 1 THEN 0
        ELSE labels[p]]

\* the sum of the values f[x], x in S
RECURSIVE SumOver(_, _)
SumOver(f, S) ==
    IF S = {} THEN Zero
    ELSE Only({Add(f[x], SumOver(f, S \ {x})) : x \in {CHOOSE y \in S : TRUE}})

\* feature "Mean": the mean of the samples of a region
MeanOf(input, S) ==
    IF \A x \in S, y \in S : input.data[x] = input.data[y]
    THEN input.data[CHOOSE x \in S : TRUE]
    ELSE Div(SumOver(input.data, S), Q(Cardinality(S), 1))

\* feature "Center": the centroid of a region
CenterOf(sizes, S) ==
    [a \in 1 .. Len(sizes) |->
        Div(SumOver([x \in S |-> Q(x[a], 1)], S), Q(Cardinality(S), 1))]

\* the labels of a label image, in increasing order
RECURSIVE SortedLabels(_)
SortedLabels(L) ==
    IF L = {} THEN << >>
    ELSE Only({<<n>> \o SortedLabels(L \ {n}) :
                  n \in {CHOOSE x \in L : \A y \in L : x <= y}})

\* msrTool.Measure( localExtrema, in, { "Center", "Size", "Mean" } )
Measure(labels, input) ==
    Only({[n \in 1 .. Len(ids) |->
              Only({[label |-> ids[n], Center |-> CenterOf(input.sizes, S),
                     Size |-> Cardinality(S), Mean |-> MeanOf(input, S)] :
                    S \in {{p \in DOMAIN labels : labels[p] = ids[n]}}})] :
          ids \in {SortedLabels({labels[p] : p \in DOMAIN labels} \ {0})}})

\* round_cast( v ) of a value that is not NaN
round_cast(v) == (2 * v.n + v.d) \div (2 * v.d)

(***************************************************************************)
(* SubpixelExtrema( in, mask, s_method, invert ), called by SubpixelMaxima *)
(* (invert = false) and SubpixelMinima (invert = true)                     *)
(***************************************************************************)
\* lines 514-518: the checks of the input image
SE_CheckInput ==
    /\ pc = "SE_check"
    /\ IF ~in.forged THEN Throw("IMAGE_NOT_FORGED")
       ELSE IF ~in.scalar THEN Throw("IMAGE_NOT_SCALAR")
       ELSE IF ~in.real THEN Throw("DATA_TYPE_NOT_SUPPORTED")
       ELSE IF Dimensionality(in) < 1 THEN Throw("DIMENSIONALITY_NOT_SUPPORTED")
       ELSE pc' = "SE_parse" /\ UNCHANGED <<err, out>>
    /\ UNCHANGED <<entry, epsilonArg, epsilon, pt, distance, in, mask, position, polarity, s_method, solveSing, ii, invert,
                   method, localExtrema, measurement, fitCalls, nReads>>

\* lines 519-520: method = ParseMethod( s_method, nDims )
SE_ParseMethod ==
    /\ pc = "SE_parse"
    /\ \E m \in {ParseMethod(s_method, Dimensionality(in))} :
          IF m.err # "" THEN Throw(m.err) /\ UNCHANGED method
          ELSE method' = m.method /\ pc' = "SE_find" /\ UNCHANGED <<err, out>>
    /\ UNCHANGED <<entry, epsilonArg, epsilon, pt, distance, in, mask, position, polarity, s_method, solveSing, ii, invert,
                   localExtrema, measurement, fitCalls, nReads>>

\* lines 522-528: Minima or Maxima( in, localExtrema, nDims, "labels" )
SE_FindExtrema ==
    /\ pc = "SE_find"
    /\ localExtrema' = LabelExtrema(in, invert)
    /\ pc' = "SE_mask"
    /\ UNCHANGED <<entry, epsilonArg, epsilon, pt, distance, in, mask, position, polarity, s_method, solveSing, ii, invert,
                   method, measurement, out, err, fitCalls, nReads>>

\* C26, mutant of line 533: the mask is checked and not applied
SE_MaskNotApplied ==
    /\ pc = "SE_mask"
    /\ IF ~mask.forged
       THEN pc' = "SE_border" /\ UNCHANGED <<localExtrema, err, out>>
       ELSE IF CheckIsMask(mask, in.sizes) # ""
            THEN Throw(CheckIsMask(mask, in.sizes)) /\ UNCHANGED localExtrema
            ELSE /\ pc' = "SE_border"
                 /\ UNCHANGED <<localExtrema, err, out>>
    /\ UNCHANGED <<entry, epsilonArg, epsilon, pt, distance, in, mask, position, polarity, s_method, solveSing, ii, invert,
                   method, measurement, fitCalls, nReads>>

\* lines 530-534: the local extrema are masked
SE_Mask ==
    /\ pc = "SE_mask"
    /\ IF ~mask.forged
       THEN pc' = "SE_border" /\ UNCHANGED <<localExtrema, err, out>>
       ELSE IF CheckIsMask(mask, in.sizes) # ""
            THEN Throw(CheckIsMask(mask, in.sizes)) /\ UNCHANGED localExtrema
            ELSE /\ localExtrema' = ApplyMask(localExtrema, mask)
                 /\ pc' = "SE_border"
                 /\ UNCHANGED <<err, out>>
    /\ UNCHANGED <<entry, epsilonArg, epsilon, pt, distance, in, mask, position, polarity, s_method, solveSing, ii, invert,
                   method, measurement, fitCalls, nReads>>

\* C13, mutant of lines 536-537: the border is not cleared
SE_SetBorderMissing ==
    /\ pc = "SE_border"
    /\ pc' = "SE_measure"
    /\ UNCHANGED <<entry, epsilonArg, epsilon, pt, distance, in, mask, position, polarity, s_method, solveSing, ii,
                   invert, method, localExtrema, measurement, out, err, fitCalls,
                   nReads>>

\* lines 536-537: SetBorder( localExtrema )
SE_SetBorder ==
    /\ pc = "SE_border"
    /\ localExtrema' = SetBorder(localExtrema, in.sizes)
    /\ pc' = "SE_measure"
    /\ UNCHANGED <<entry, epsilonArg, epsilon, pt, distance, in, mask, position, polarity, s_method, solveSing, ii, invert,
                   method, measurement, out, err, fitCalls, nReads>>

\* lines 539-550: the regions are measured and the output is allocated
SE_Measure ==
    /\ pc = "SE_measure"
    /\ \E msr \in {Measure(localExtrema, in)} :
          /\ measurement' = msr
          /\ pc' = IF Len(msr) = 0 THEN "done" ELSE "SE_loop"
    /\ ii' = 0
    /\ out' = << >>
    /\ UNCHANGED <<entry, epsilonArg, epsilon, pt, distance, in, mask, position, polarity, s_method, solveSing, invert,
                   method, localExtrema, err, fitCalls, nReads>>

\* lines 567-570: the position of a region of one pixel
RoundedCenter(obj) == [a \in 1 .. Len(obj.Center) |-> round_cast(obj.Center[a])]

\* C12, mutant of the test of line 562: the size of the region is not looked at
IsPlateauIntegerOnly(m0, obj) == m0 = "INTEGER"

\* line 562: the region is reported by its centroid and mean
IsPlateau(m0, obj) == m0 = "INTEGER" \/ obj.Size > 1

\* C14, mutant of the loop: a result is written in front of the earlier ones
SE_LoopReversed ==
    /\ pc = "SE_loop"
    /\ \E obj \in {measurement[ii + 1]} :
          IF IsPlateau(method, obj)
          THEN /\ out' = << Result(obj.Center, obj.Mean) >> \o out
               /\ pc' = IF ii + 1 >= Len(measurement) THEN "done" ELSE "SE_loop"
               /\ ii' = ii + 1
               /\ UNCHANGED <<err, fitCalls, nReads>>
          ELSE \E r \in {SubpixelLocationInternal(in, RoundedCenter(obj), method, invert)} :
                  /\ fitCalls' = Append(fitCalls, FitCall(in, RoundedCenter(obj), method, r))
                  /\ nReads' = nReads + InternalReads(Dimensionality(in), method)
                  /\ IF r.err # "" THEN Throw(r.err) /\ UNCHANGED ii
                     ELSE /\ out' = << Result(r.coordinates, r.value) >> \o out
                          /\ pc' = IF ii + 1 >= Len(measurement) THEN "done" ELSE "SE_loop"
                          /\ ii' = ii + 1
                          /\ UNCHANGED err
    /\ UNCHANGED <<entry, epsilonArg, epsilon, pt, distance, in, mask, position, polarity, s_method, solveSing, invert,
                   method, localExtrema, measurement>>

\* C28, mutant of lines 560-561 and 572: the iterator over the regions is
\* not advanced, every region is fitted at the place of the first one
SE_LoopFirstRegion ==
    /\ pc = "SE_loop"
    /\ \E obj \in {measurement[ii + 1]} :
          IF IsPlateau(method, obj)
          THEN /\ out' = Append(out, Result(obj.Center, obj.Mean))
               /\ pc' = IF ii + 1 >= Len(measurement) THEN "done" ELSE "SE_loop"
               /\ ii' = ii + 1
               /\ UNCHANGED <<err, fitCalls, nReads>>
          ELSE \E r \in {SubpixelLocationInternal(in, RoundedCenter(measurement[1]), method, invert)} :
                  /\ fitCalls' = Append(fitCalls, FitCall(in, RoundedCenter(measurement[1]), method, r))
                  /\ nReads' = nReads + InternalReads(Dimensionality(in), method)
                  /\ IF r.err # "" THEN Throw(r.err) /\ UNCHANGED ii
                     ELSE /\ out' = Append(out, Result(r.coordinates, r.value))
                          /\ pc' = IF ii + 1 >= Len(measurement) THEN "done" ELSE "SE_loop"
                          /\ ii' = ii + 1
                          /\ UNCHANGED err
    /\ UNCHANGED <<entry, epsilonArg, epsilon, pt, distance, in, mask, position, polarity, s_method, solveSing, invert,
                   method, localExtrema, measurement>>

\* lines 559-574: one iteration of the loop over the regions (ii from 0)
SE_Loop ==
    /\ pc = "SE_loop"
    /\ \E obj \in {measurement[ii + 1]} :
          IF IsPlateau(method, obj)
          THEN /\ out' = Append(out, Result(obj.Center, obj.Mean))
               /\ pc' = IF ii + 1 >= Len(measurement) THEN "done" ELSE "SE_loop"
               /\ ii' = ii + 1
               /\ UNCHANGED <<err, fitCalls, nReads>>
          ELSE \E r \in {SubpixelLocationInternal(in, RoundedCenter(obj), method, invert)} :
                  /\ fitCalls' = Append(fitCalls, FitCall(in, RoundedCenter(obj), method, r))
                  /\ nReads' = nReads + InternalReads(Dimensionality(in), method)
                  /\ IF r.err # "" THEN Throw(r.err) /\ UNCHANGED ii
                     ELSE /\ out' = Append(out, Result(r.coordinates, r.value))
                          /\ pc' = IF ii + 1 >= Len(measurement) THEN "done" ELSE "SE_loop"
                          /\ ii' = ii + 1
                          /\ UNCHANGED err
    /\ UNCHANGED <<entry, epsilonArg, epsilon, pt, distance, in, mask, position, polarity, s_method, solveSing, invert,
                   method, localExtrema, measurement>>

(***************************************************************************)
(* MeanShift( meanShiftVectorResult, start, epsilon )                      *)
(***************************************************************************)
\* line 603: DIP_THROW_IF( !meanShiftVectorResult.IsForged(), E::IMAGE_NOT_FORGED )
MS_CheckForged ==
    /\ pc = "MS_forged"
    /\ IF ~in.forged THEN Throw("IMAGE_NOT_FORGED")
       ELSE pc' = "MS_tensor" /\ UNCHANGED <<err, out>>
    /\ UNCHANGED <<entry, epsilonArg, epsilon, pt, distance, in, mask, position,
                   polarity, s_method, solveSing, ii, invert, method, localExtrema,
                   measurement, fitCalls, nReads>>

\* lines 604-605: the tensor elements are compared with the dimensionality
MS_CheckTensor ==
    /\ pc = "MS_tensor"
    /\ IF in.tensor # Dimensionality(in) THEN Throw("NTENSORELEM_DONT_MATCH")
       ELSE pc' = "MS_real" /\ UNCHANGED <<err, out>>
    /\ UNCHANGED <<entry, epsilonArg, epsilon, pt, distance, in, mask, position,
                   polarity, s_method, solveSing, ii, invert, method, localExtrema,
                   measurement, fitCalls, nReads>>

\* line 606: DIP_THROW_IF( !...DataType().IsReal(), E::DATA_TYPE_NOT_SUPPORTED )
MS_CheckReal ==
    /\ pc = "MS_real"
    /\ IF ~in.real THEN Throw("DATA_TYPE_NOT_SUPPORTED")
       ELSE pc' = "MS_length" /\ UNCHANGED <<err, out>>
    /\ UNCHANGED <<entry, epsilonArg, epsilon, pt, distance, in, mask, position,
                   polarity, s_method, solveSing, ii, invert, method, localExtrema,
                   measurement, fitCalls, nReads>>

\* line 607: DIP_THROW_IF( start.size() != nDims, E::ARRAY_PARAMETER_WRONG_LENGTH )
MS_CheckLength ==
    /\ pc = "MS_length"
    /\ IF Len(position) # Dimensionality(in) THEN Throw("ARRAY_PARAMETER_WRONG_LENGTH")
       ELSE pc' = "MS_epsilon" /\ UNCHANGED <<err, out>>
    /\ UNCHANGED <<entry, epsilonArg, epsilon, pt, distance, in, mask, position,
                   polarity, s_method, solveSing, ii, invert, method, localExtrema,
                   measurement, fitCalls, nReads>>

\* C15, mutant of line 608: an epsilon of 0 is let through
MS_CheckEpsilonStrict ==
    /\ pc = "MS_epsilon"
    /\ IF Lt(epsilon, Zero) THEN Throw("PARAMETER_OUT_OF_RANGE")
       ELSE pc' = "MS_prepare" /\ UNCHANGED <<err, out>>
    /\ UNCHANGED <<entry, epsilonArg, epsilon, pt, distance, in, mask, position,
                   polarity, s_method, solveSing, ii, invert, method, localExtrema,
                   measurement, fitCalls, nReads>>

\* line 608: DIP_THROW_IF( epsilon <= 0.0, E::PARAMETER_OUT_OF_RANGE )
MS_CheckEpsilon ==
    /\ pc = "MS_epsilon"
    /\ IF Le(epsilon, Zero) THEN Throw("PARAMETER_OUT_OF_RANGE")
       ELSE pc' = "MS_prepare" /\ UNCHANGED <<err, out>>
    /\ UNCHANGED <<entry, epsilonArg, epsilon, pt, distance, in, mask, position,
                   polarity, s_method, solveSing, ii, invert, method, localExtrema,
                   measurement, fitCalls, nReads>>

\* C16, mutant of line 609: epsilon is not squared
MS_PrepareNoSquare ==
    /\ pc = "MS_prepare"
    /\ pt' = position
    /\ distance' = Zero
    /\ pc' = "MS_loop"
    /\ UNCHANGED <<entry, epsilonArg, epsilon, in, mask, position, polarity, s_method,
                   solveSing, ii, invert, method, localExtrema, measurement, out,
                   err, fitCalls, nReads>>

\* C17, mutant of line 611: pt starts at the origin, not at the start
MS_PrepareNoStart ==
    /\ pc = "MS_prepare"
    /\ epsilon' = Mul(epsilon, epsilon)
    /\ pt' = [a \in 1 .. Len(position) |-> Zero]
    /\ distance' = Zero
    /\ pc' = "MS_loop"
    /\ UNCHANGED <<entry, epsilonArg, in, mask, position, polarity, s_method,
                   solveSing, ii, invert, method, localExtrema, measurement, out,
                   err, fitCalls, nReads>>

\* lines 609-612: epsilon is squared, pt is the start, distance is 0
MS_Prepare ==
    /\ pc = "MS_prepare"
    /\ epsilon' = Mul(epsilon, epsilon)
    /\ pt' = position
    /\ distance' = Zero
    /\ pc' = "MS_loop"
    /\ UNCHANGED <<entry, epsilonArg, in, mask, position, polarity, s_method,
                   solveSing, ii, invert, method, localExtrema, measurement, out,
                   err, fitCalls, nReads>>

\* the coordinates p are those of a pixel of the field
AtPixel(field, p) ==
    \A a \in 1 .. Len(p) :
        ~IsNaN(p[a]) /\ p[a].d = 1 /\ p[a].n >= 0 /\ p[a].n < field.sizes[a]

\* what an interpolation outside the field may give: the read is not checked
UncheckedReads(n) ==
    {[a \in 1 .. n |-> Zero], [a \in 1 .. n |-> NaN],
     [a \in 1 .. n |-> IF a = 1 THEN Q(1, 1) ELSE Zero]}

\* ResampleAtUnchecked( meanShiftVectorResult, pt, interpFunc ): the vectors
\* it may return; at a pixel the cubic interpolation gives the sample
ResampleAtUnchecked(field, p) ==
    IF AtPixel(field, p) THEN {field.data[[a \in 1 .. Len(p) |-> p[a].n]]}
    ELSE UncheckedReads(Len(p))

\* meanShift.norm_square()
RECURSIVE norm_square(_)
norm_square(v) ==
    IF v = << >> THEN Zero
    ELSE Add(Mul(Head(v), Head(v)), norm_square(Tail(v)))

\* C18, mutant of line 611: pt is the caller's start array, not a copy of it
MS_StepAliased ==
    /\ pc = "MS_loop"
    /\ nReads < MaxSteps
    /\ \E meanShift \in ResampleAtUnchecked(in, pt) :
          /\ pt' = [a \in 1 .. Len(pt) |-> Add(pt[a], meanShift[a])]
          /\ distance' = norm_square(meanShift)
    /\ position' = pt'
    /\ nReads' = nReads + 1
    /\ IF Gt(distance', epsilon)
       THEN pc' = "MS_loop" /\ UNCHANGED out
       ELSE pc' = "done" /\ out' = << pt' >>
    /\ UNCHANGED <<entry, epsilonArg, epsilon, in, mask, polarity,
                   s_method, solveSing, ii, invert, method, localExtrema,
                   measurement, err, fitCalls>>

\* lines 614-621: one iteration of the do-while loop, and the return that
\* follows the last one
MS_Step ==
    /\ pc = "MS_loop"
    /\ nReads < MaxSteps
    /\ \E meanShift \in ResampleAtUnchecked(in, pt) :
          /\ pt' = [a \in 1 .. Len(pt) |-> Add(pt[a], meanShift[a])]
          /\ distance' = norm_square(meanShift)
    /\ nReads' = nReads + 1
    /\ IF Gt(distance', epsilon)
       THEN pc' = "MS_loop" /\ UNCHANGED out
       ELSE pc' = "done" /\ out' = << pt' >>
    /\ UNCHANGED <<entry, epsilonArg, epsilon, in, mask, position, polarity,
                   s_method, solveSing, ii, invert, method, localExtrema,
                   measurement, err, fitCalls>>

Next ==
    \/ SL_CheckForged
    \/ SL_CheckScalar
    \/ SL_CheckReal
    \/ SL_CheckDims
    \/ SL_CheckLength
    \/ SL_BorderLoop
    \/ SL_Parse
    \/ SL_Call
    \/ SE_CheckInput
    \/ SE_ParseMethod
    \/ SE_FindExtrema
    \/ SE_Mask
    \/ SE_SetBorder
    \/ SE_Measure
    \/ SE_Loop
    \/ MS_CheckForged
    \/ MS_CheckTensor
    \/ MS_CheckReal
    \/ MS_CheckLength
    \/ MS_CheckEpsilon
    \/ MS_Prepare
    \/ MS_Step

Spec == Init /\ [][Next]_vars

(***************************************************************************)
(* Vocabulary of the properties.                                           *)
(***************************************************************************)
IsLocation == entry = "SubpixelLocation"
IsExtrema == entry \in {"SubpixelMaxima", "SubpixelMinima"}
Finished == pc \in {"done", "thrown"}
ValidGrid == in.forged /\ in.scalar /\ in.real /\ Dimensionality(in) >= 1
RightLength == Len(position) = Dimensionality(in)
InBounds == \A a \in 1 .. Len(position) : position[a] < in.sizes[a]
OutOfBounds == \E a \in 1 .. Len(position) : position[a] >= in.sizes[a]
BorderPosition ==
    \E a \in 1 .. Len(position) : position[a] = 0 \/ position[a] = in.sizes[a] - 1
ValidPolarity == polarity \in {"maximum", "minimum"}
UnknownMethod ==
    s_method \notin {"linear", "parabolic", "parabolic_separable", "gaussian",
                     "gaussian_separable", "integer"}
JointRequested == s_method \in {"parabolic", "gaussian"}
Unrefined == << Result(FloatArray(position), in.data[position]) >>
FitRejected(c) ==
    c.method \in {"PARABOLIC", "GAUSSIAN"} /\ Len(c.position) \in {2, 3} /\ ~c.accepted

\* C1: a valid grid and an in-bounds position with an axis on the border: the
\* call never throws, never reaches the parsing or SubpixelLocationInternal,
\* reads no neighbour, and returns the integer position with its raw sample
C1_BorderUnrefined ==
    (IsLocation /\ ValidGrid /\ RightLength /\ InBounds /\ BorderPosition) =>
        /\ pc \notin {"thrown", "SL_parse", "SL_call"}
        /\ fitCalls = << >>
        /\ nReads <= 1
        /\ method = "none"
        /\ pc = "done" => out = Unrefined

\* C1, witness: a 2D call returned unrefined because its second axis is on
\* the border, with a method name and a polarity that do not exist
C1_Witness ==
    /\ IsLocation /\ ValidGrid /\ RightLength /\ InBounds
    /\ pc = "done" /\ Len(position) = 2
    /\ position[1] = 1 /\ in.sizes[1] = 3 /\ position[2] = in.sizes[2] - 1
    /\ s_method = "bogus" /\ polarity = "bogus"
    /\ out = Unrefined

\* C2: the value SubpixelLocationInternal returns is never less extreme than
\* the raw sample: >= for a maximum, <= for a minimum, accepted fit or not
C2_ValueNotLessExtreme ==
    \A k \in 1 .. Len(fitCalls) :
        fitCalls[k].err = "" =>
            IF invert THEN Le(fitCalls[k].value, fitCalls[k].raw)
            ELSE Ge(fitCalls[k].value, fitCalls[k].raw)

\* C2, witness: an accepted joint fit of a maximum reports a value above the
\* raw sample
C2_Witness ==
    /\ pc = "done" /\ ~invert /\ Len(fitCalls) = 1
    /\ fitCalls[1].method = "PARABOLIC" /\ fitCalls[1].accepted
    /\ Gt(fitCalls[1].value, fitCalls[1].raw)

\* C3: a rejected joint fit reports the raw sample, whatever its sign.
\* The code leaves val at 0 after a rejected fit and clamps the raw sample
\* against it, so this is violated.
C3_RejectedValueIsRaw ==
    \A k \in 1 .. Len(fitCalls) :
        FitRejected(fitCalls[k]) => fitCalls[k].value = fitCalls[k].raw

\* C4: a rejected joint fit is no error. SubpixelLocation returns the integer
\* position; in SubpixelMaxima / SubpixelMinima the call goes on, and every
\* result is the one its own candidate determines
C4_RejectedFitIsNoError ==
    /\ \A k \in 1 .. Len(fitCalls) :
          FitRejected(fitCalls[k]) =>
              /\ fitCalls[k].err = ""
              /\ fitCalls[k].coordinates = FloatArray(fitCalls[k].position)
    /\ (fitCalls # << >> /\ FitRejected(fitCalls[Len(fitCalls)])) =>
          /\ pc # "thrown"
          /\ IsLocation =>
                /\ pc = "done"
                /\ out[1].coordinates = FloatArray(position)
          /\ IsExtrema => Len(out) = ii /\ (pc = "done" <=> ii = Len(measurement))
    /\ (IsExtrema /\ pc \in {"SE_loop", "done"}
           /\ \E k \in 1 .. Len(fitCalls) : FitRejected(fitCalls[k])) =>
          \A n \in 1 .. Len(out) :
              out[n] = IF IsPlateau(method, measurement[n])
                       THEN Result(measurement[n].Center, measurement[n].Mean)
                       ELSE Only({Result(r.coordinates, r.value) :
                                  r \in {SubpixelLocationInternal(
                                            in, RoundedCenter(measurement[n]),
                                            method, invert)}})

\* C4, witness: SubpixelMaxima returned two results, the first from a
\* rejected fit and the second from an accepted one
C4_Witness ==
    /\ entry = "SubpixelMaxima" /\ pc = "done" /\ Len(out) = 2 /\ Len(fitCalls) = 2
    /\ FitRejected(fitCalls[1])
    /\ out[1].coordinates = FloatArray(fitCalls[1].position)
    /\ fitCalls[2].accepted /\ fitCalls[2].method = "PARABOLIC"

\* C5: a position with an axis out of bounds ends in the error "Initial
\* coordinates out of image bounds", whatever the other axes hold, and an
\* in-bounds position on the border is never an error.
\* The border loop tests the bound of the first border axis only, so this is
\* violated when an earlier axis is on the border.
C5_OutOfBoundsError ==
    (IsLocation /\ ValidGrid /\ RightLength /\ Finished) =>
        /\ OutOfBounds =>
              /\ pc = "thrown"
              /\ err = "Initial coordinates out of image bounds"
              /\ out = << >>
        /\ (InBounds /\ BorderPosition) => pc = "done"

C7_JointFitDimensionality ==
    (ValidGrid /\ JointRequested /\ Dimensionality(in) >= 4 /\ Finished
        /\ (IsLocation => RightLength /\ InBounds /\ ValidPolarity)) =>
        pc = "thrown" /\ err = "ILLEGAL_DIMENSIONALITY" /\ out = << >>

\* the error of the first precondition of SubpixelLocation that is violated
FirstViolated ==
    IF ~in.forged THEN "IMAGE_NOT_FORGED"
    ELSE IF ~in.scalar THEN "IMAGE_NOT_SCALAR"
    ELSE IF ~in.real THEN "DATA_TYPE_NOT_SUPPORTED"
    ELSE IF Dimensionality(in) = 0 THEN "DIMENSIONALITY_NOT_SUPPORTED"
    ELSE IF Len(position) # Dimensionality(in) THEN "ARRAY_PARAMETER_WRONG_LENGTH"
    ELSE ""

\* C8: SubpixelLocation with a violated precondition throws the error of the
\* first violated one and returns nothing; no sample is read, no border is
\* tested and neither polarity nor method is parsed
C8_PreconditionOrder ==
    (IsLocation /\ FirstViolated # "") =>
        /\ pc \notin {"SL_border", "SL_parse", "SL_call", "done"}
        /\ nReads = 0 /\ fitCalls = << >> /\ method = "none" /\ out = << >>
        /\ pc = "thrown" => err = FirstViolated

\* C8, witness: a position of the wrong length is reported although the
\* method and the polarity do not exist either
C8_Witness ==
    /\ IsLocation /\ pc = "thrown" /\ err = "ARRAY_PARAMETER_WRONG_LENGTH"
    /\ s_method = "bogus" /\ polarity = "bogus" /\ Dimensionality(in) = 2

\* C9: SubpixelLocation with method Integer on a valid grid and an in-bounds
\* position returns the integer position and the raw sample
C9_IntegerUnrefined ==
    (IsLocation /\ ValidGrid /\ RightLength /\ InBounds /\ ValidPolarity
        /\ s_method = "integer" /\ Finished) =>
        pc = "done" /\ out = Unrefined

\* C9, witness: an interior position went through SubpixelLocationInternal
\* with method INTEGER, on an image where the fits would move it
C9_Witness ==
    /\ IsLocation /\ pc = "done" /\ Len(fitCalls) = 1
    /\ fitCalls[1].method = "INTEGER" /\ invert
    /\ out = Unrefined
    /\ LinearCase(in, position, "LINEAR", invert).coordinates # FloatArray(position)

\* the separable method a joint method name stands for on a 1D grid
SeparableOf(s) == IF s = "parabolic" THEN "PARABOLIC_SEPARABLE" ELSE "GAUSSIAN_SEPARABLE"

\* C10: on a 1D grid the methods Parabolic and Gaussian give the results of
\* ParabolicSeparable and GaussianSeparable, and the joint case and its
\* illegal-dimensionality error are never reached
C10_OneDimensionalJointIsSeparable ==
    (ValidGrid /\ Dimensionality(in) = 1 /\ JointRequested) =>
        /\ method \in {"none", SeparableOf(s_method)}
        /\ err # "ILLEGAL_DIMENSIONALITY"
        /\ \A k \in 1 .. Len(fitCalls) :
              /\ fitCalls[k].method = SeparableOf(s_method)
              /\ \E r \in {SeparableCase(in, fitCalls[k].position,
                                         SeparableOf(s_method), invert)} :
                    /\ fitCalls[k].coordinates = r.coordinates
                    /\ fitCalls[k].value = r.value
        /\ (IsLocation /\ pc = "done" /\ fitCalls # << >>) =>
              out = << Result(fitCalls[1].coordinates, fitCalls[1].value) >>

\* C10, witness: a 1D call with method "gaussian" returned a refined position
C10_Witness ==
    /\ IsLocation /\ Dimensionality(in) = 1 /\ s_method = "gaussian" /\ pc = "done"
    /\ Len(fitCalls) = 1 /\ fitCalls[1].method = "GAUSSIAN_SEPARABLE"
    /\ out[1].coordinates # FloatArray(position)

\* the grid with every sample negated
NegatedGrid(g) == [g EXCEPT !.data = [p \in DOMAIN g.data |-> Neg(g.data[p])]]

Processed == IF pc = "thrown" /\ fitCalls # << >> THEN ii + 1 ELSE ii

\* the regions that are to be fitted: one pixel, and a method other than
\* Integer
ToBeFitted(n) == method # "INTEGER" /\ measurement[n].Size = 1

\* C12: SubpixelMaxima / SubpixelMinima pass a region to
\* SubpixelLocationInternal if and only if the method is not Integer and the
\* region has exactly one pixel; every other region is reported by its
\* centroid and mean, and no sample is read for it
C12_FitOnlySinglePixelRegions ==
    (IsExtrema /\ pc \in {"SE_loop", "done", "thrown"} /\ measurement # << >>) =>
        /\ Len(fitCalls) = Cardinality({n \in 1 .. Processed : ToBeFitted(n)})
        /\ \A k \in 1 .. Len(fitCalls) :
              \E n \in 1 .. Processed :
                 /\ ToBeFitted(n)
                 /\ Cardinality({j \in 1 .. n : ToBeFitted(j)}) = k
                 /\ \A a \in 1 .. Dimensionality(in) :
                       Q(fitCalls[k].position[a], 1) = measurement[n].Center[a]
        /\ \A n \in 1 .. Len(out) :
              ~ToBeFitted(n) =>
                  out[n] = Result(measurement[n].Center, measurement[n].Mean)
        /\ nReads = Len(fitCalls) * InternalReads(Dimensionality(in), method)

\* C12, witness: a call with a fitting method returned a plateau of two
\* pixels by its centroid, and a region of one pixel by a fit
C12_Witness ==
    /\ IsExtrema /\ pc = "done" /\ method = "PARABOLIC_SEPARABLE"
    /\ Len(out) = 2 /\ Len(fitCalls) = 1
    /\ measurement[1].Size = 2 /\ measurement[2].Size = 1
    /\ out[1].coordinates = << Q(3, 2) >>
    /\ fitCalls[1].position = << MaxLen >>

\* the pixel p lies on the border of the grid
OnGridBorder(p) == \E a \in 1 .. Len(p) : p[a] = 0 \/ p[a] = in.sizes[a] - 1

\* the label image of the detector, masked, before the border is cleared
Detected ==
    IF mask.forged THEN ApplyMask(LabelExtrema(in, invert), mask)
    ELSE LabelExtrema(in, invert)

\* C13 as stated: a detected extremum of one pixel on the border of the grid
\* is not fitted and is in the output with its integer coordinate and its
\* own sample value.
\* SetBorder removes the border pixels from the label image before the
\* regions are measured, so the extremum is not in the output at all.
C13_BorderExtremumReported ==
    (IsExtrema /\ pc = "done") =>
        \E lab \in {Detected} :
            \A p \in DOMAIN lab :
                (OnGridBorder(p) /\ lab[p] # 0
                    /\ \A q \in DOMAIN lab : lab[q] = lab[p] => q = p) =>
                    /\ \A k \in 1 .. Len(fitCalls) : fitCalls[k].position # p
                    /\ \E n \in 1 .. Len(out) :
                          out[n] = Result(FloatArray(p), in.data[p])

\* C13, amended: no pixel on the border of the grid is left in the label
\* image when the regions are measured, none is passed to
\* SubpixelLocationInternal, and the output has one result per region of
\* the pixels that are left, so an extremum on the border has no result
C13_BorderExtremaRemoved ==
    (IsExtrema /\ (pc \in {"SE_measure", "SE_loop", "done"}
                      \/ (pc = "thrown" /\ fitCalls # << >>))) =>
        /\ \A p \in DOMAIN localExtrema : OnGridBorder(p) => localExtrema[p] = 0
        /\ \A k \in 1 .. Len(fitCalls) : ~OnGridBorder(fitCalls[k].position)
        /\ pc = "done" =>
              Len(out) = Cardinality({localExtrema[p] : p \in DOMAIN localExtrema} \ {0})

\* C13, witness: the only maximum of a 3x3 grid is its last pixel, and
\* SubpixelMaxima returned nothing
C13_Witness ==
    /\ entry = "SubpixelMaxima" /\ pc = "done" /\ method = "PARABOLIC"
    /\ in = Ramp(<<3, 3>>, "lin", 1)
    /\ out = << >>

\* the result SubpixelExtrema is to give for region n of the measurement
ResultOfRegion(n) ==
    IF ~ToBeFitted(n) THEN Result(measurement[n].Center, measurement[n].Mean)
    ELSE Only({Result(r.coordinates, r.value) :
               r \in {SubpixelLocationInternal(in, RoundedCenter(measurement[n]),
                                               method, invert)}})

\* C14: SubpixelMaxima / SubpixelMinima return one result per measured
\* region, in the order of the measurement, none left out and none twice;
\* without regions they return an empty array and no error
C14_OneResultPerRegionInOrder ==
    (IsExtrema /\ pc \in {"SE_loop", "done"}) =>
        /\ Len(out) = ii
        /\ pc = "done" <=> ii = Len(measurement)
        /\ pc = "done" => err = ""
        /\ \A n \in 1 .. Len(out) : out[n] = ResultOfRegion(n)

\* C14, witness: SubpixelMinima returned the two different results of two
\* fitted regions
C14_Witness ==
    /\ entry = "SubpixelMinima" /\ pc = "done" /\ method = "LINEAR"
    /\ Len(measurement) = 2 /\ Len(out) = 2 /\ Len(fitCalls) = 2
    /\ out[1] # out[2]
    /\ out[1].coordinates # FloatArray(fitCalls[1].position)

IsMeanShift == entry = "MeanShift"

\* the error of the first precondition of MeanShift that is violated
MeanShiftFirstViolated ==
    IF ~in.forged THEN "IMAGE_NOT_FORGED"
    ELSE IF in.tensor # Dimensionality(in) THEN "NTENSORELEM_DONT_MATCH"
    ELSE IF ~in.real THEN "DATA_TYPE_NOT_SUPPORTED"
    ELSE IF Len(position) # Dimensionality(in) THEN "ARRAY_PARAMETER_WRONG_LENGTH"
    ELSE IF Le(epsilonArg, Zero) THEN "PARAMETER_OUT_OF_RANGE"
    ELSE ""

\* C15: MeanShift with a violated precondition (field not forged, tensor
\* elements other than the dimensionality, samples not real, start of a wrong
\* length, epsilon <= 0) throws the error of the first violated one, in this
\* order, and interpolates nothing
C15_MeanShiftPreconditions ==
    (IsMeanShift /\ MeanShiftFirstViolated # "") =>
        /\ pc \notin {"MS_prepare", "MS_loop", "done"}
        /\ nReads = 0 /\ out = << >> /\ pt = << >>
        /\ pc = "thrown" => err = MeanShiftFirstViolated

\* C15, witness: an epsilon of 0 is refused on a valid 2D field
C15_Witness ==
    /\ IsMeanShift /\ pc = "thrown" /\ err = "PARAMETER_OUT_OF_RANGE"
    /\ epsilonArg = Zero /\ Dimensionality(in) = 2 /\ nReads = 0

\* the square of the epsilon the caller passed
CallerEpsilonSquared == Mul(epsilonArg, epsilonArg)

\* C16 as stated: MeanShift returns only at a step whose displacement
\* satisfies |F(p(k))|^2 <= epsilon^2.
\* The loop goes on while distance > epsilon, which is false for a NaN
\* distance too, so MeanShift returns at a step with a NaN displacement.
C16_ReturnsOnlyBelowThreshold ==
    (IsMeanShift /\ pc = "done") => Le(distance, CallerEpsilonSquared)

\* what holds in every state of the iteration of MeanShift
MeanShiftLoopInvariant ==
    IsMeanShift =>
        /\ pc = "MS_loop" =>
              /\ epsilon = CallerEpsilonSquared
              /\ \/ nReads = 0 /\ pt = position
                 \/ nReads >= 1 /\ Gt(distance, CallerEpsilonSquared)
        /\ pc = "done" =>
              /\ nReads >= 1
              /\ ~Gt(distance, CallerEpsilonSquared)
              /\ out = << pt >>

\* what holds of every step of MeanShift
MeanShiftStepProperty ==
    IsMeanShift =>
        /\ pc # "done"
        /\ pc = "MS_loop" =>
              \E v \in ResampleAtUnchecked(in, pt) :
                 /\ pt' = [a \in 1 .. Len(pt) |-> Add(pt[a], v[a])]
                 /\ distance' = norm_square(v)
                 /\ nReads' = nReads + 1
                 /\ pc' = IF Gt(norm_square(v), CallerEpsilonSquared)
                          THEN "MS_loop" ELSE "done"

\* C16, amended: MeanShift iterates p(k+1) = p(k) + F(p(k)) from the start,
\* makes at least one step, goes on while |F(p(k))|^2 > epsilon^2 (the square
\* of the caller's epsilon) and returns p(k+1) at the first step for which
\* this is false, a NaN displacement included; it makes no step after it has
\* returned, and does not return while the displacements are above epsilon^2
C16_MeanShiftIteration ==
    [](MeanShiftLoopInvariant) /\ [][MeanShiftStepProperty]_vars

\* C16, witness: MeanShift returned at its second step, the first
\* displacement being above the threshold
C16_Witness ==
    /\ IsMeanShift /\ pc = "done" /\ nReads = 2
    /\ Gt(distance, Zero) /\ Le(distance, CallerEpsilonSquared)
    /\ out # << position >>

\* the vector of zeros of the length of v
IsZeroVector(v) == \A a \in 1 .. Len(v) : v[a] = Zero

\* MeanShift runs its loop, on a field whose sample at the start is zero
ZeroAtStart ==
    /\ IsMeanShift /\ pc \in {"MS_loop", "done"}
    /\ AtPixel(in, position)
    /\ \A v \in ResampleAtUnchecked(in, position) : IsZeroVector(v)

\* a first step of MeanShift in which the field evaluates to the zero vector
ZeroFirstStep ==
    /\ IsMeanShift /\ pc = "MS_loop" /\ nReads = 0
    /\ distance' = Zero /\ pt' = pt

\* C17: when the field is the zero vector at the start, MeanShift returns
\* exactly the start after exactly one interpolation step, for every
\* epsilon > 0
C17_ZeroFieldReturnsStart ==
    /\ [](ZeroAtStart =>
            /\ Gt(epsilonArg, Zero)
            /\ pc = "MS_loop" => nReads = 0
            /\ pc = "done" => nReads = 1 /\ out = << position >>)
    /\ [][ZeroFirstStep => pc' = "done" /\ nReads' = 1 /\ out' = << position >>]_vars

\* C17, witness: MeanShift returned the start of a field that is zero there
\* and not zero elsewhere, the start not being the origin
C17_Witness ==
    /\ ZeroAtStart /\ pc = "done" /\ out = << position >>
    /\ \E a \in 1 .. Len(position) : position[a] # Zero
    /\ \E p \in DOMAIN in.data : ~IsZeroVector(in.data[p])

\* C18: SubpixelLocation, SubpixelMaxima, SubpixelMinima and MeanShift leave
\* their inputs unchanged: no step of a call, failing or not, changes the
\* sample grid or vector field, the mask, the position or start, the method
\* name, the polarity or the caller's epsilon
C18_InputsUnchanged ==
    [][/\ in' = in
       /\ mask' = mask
       /\ position' = position
       /\ s_method' = s_method
       /\ polarity' = polarity
       /\ epsilonArg' = epsilonArg]_vars

\* C18, witness: a call has finished after working on data derived from its
\* inputs: SubpixelExtrema has masked its label image and fitted a region, or
\* MeanShift has moved away from the start
C18_Witness ==
    /\ pc = "done" /\ err = ""
    /\ \/ IsExtrema /\ mask.forged /\ Len(out) >= 1
          /\ localExtrema # LabelExtrema(in, invert)
       \/ IsMeanShift /\ nReads >= 2 /\ out # << position >>

\* the offsets of the peak of a paraboloid g from its middle pixel:
\* f(+1) - f(-1) = 4 c along every axis
PeakOffsets(g) ==
    [a \in 1 .. Len(g.sizes) |->
        Div(Sub(g.data[Shift(Centre(g.sizes), a, 1)],
                g.data[Shift(Centre(g.sizes), a, -1)]), Q(4, 1))]

\* the height of the peak of a paraboloid g whose peak is at c
PeakValue(g, c) ==
    Add(g.data[Centre(g.sizes)],
        SquaredDistance([a \in 1 .. Len(g.sizes) |-> 0], c, Len(g.sizes)))

\* g holds the samples of f = v - sum_i (x_i - c_i)^2 on the 3x3 or the
\* 3x3x3 stencil
IsParaboloidOf(g, c, v) ==
    g = Paraboloid(g.sizes, c, v)

\* SubpixelLocationInternal has been called with method m0 at the middle of
\* a 3x3 or 3x3x3 stencil of rational samples
StencilCall(m0) ==
    /\ IsLocation /\ Len(fitCalls) = 1 /\ method = m0
    /\ in.sizes \in {<<3, 3>>, <<3, 3, 3>>}
    /\ position = Centre(in.sizes)
    /\ \A p \in DOMAIN in.data : in.data[p].k = "q"

\* every |c_i| <= 0.75
InWindow(c) == \A a \in 1 .. Len(c) : Le(Q(-3, 4), c[a]) /\ Le(c[a], Q(3, 4))

\* the joint fit of the stencil of in at position is accepted with the
\* offsets c and the value v
JointFitGives(c, v) ==
    IF Len(c) = 2
    THEN quadratic_fit_3x3(Stencil2(in, position)) =
            [ok |-> TRUE, x |-> c[1], y |-> c[2], val |-> v]
    ELSE quadratic_fit_3x3x3(Stencil3(in, position)) =
            [ok |-> TRUE, x |-> c[1], y |-> c[2], z |-> c[3], val |-> v]

\* position + c
Displaced(c) == [a \in 1 .. Len(c) |-> Add(Q(position[a], 1), c[a])]

\* C19 as stated: on a paraboloid with every |c_i| <= 0.75 the joint fit is
\* accepted with offsets c and value v, and SubpixelLocationInternal with
\* method PARABOLIC returns position + c and the value v.
\* With invert = true the value is clamped to the middle sample.
C19_JointFitValueIsPeak ==
    StencilCall("PARABOLIC") =>
        \A c \in {PeakOffsets(in)} : \A v \in {PeakValue(in, c)} :
            (IsParaboloidOf(in, c, v) /\ InWindow(c)) =>
                /\ JointFitGives(c, v)
                /\ fitCalls[1].accepted
                /\ fitCalls[1].coordinates = Displaced(c)
                /\ fitCalls[1].value = v

\* C19, amended: on a paraboloid with every |c_i| <= 0.75 the joint fit is
\* accepted with offsets exactly c and value exactly v, and
\* SubpixelLocationInternal with method PARABOLIC returns position + c, with
\* the value v when invert is false and the middle sample when it is true
C19_JointFitRecoversParaboloid ==
    StencilCall("PARABOLIC") =>
        \A c \in {PeakOffsets(in)} : \A v \in {PeakValue(in, c)} :
            (IsParaboloidOf(in, c, v) /\ InWindow(c)) =>
                /\ JointFitGives(c, v)
                /\ fitCalls[1].accepted
                /\ fitCalls[1].err = ""
                /\ fitCalls[1].coordinates = Displaced(c)
                /\ fitCalls[1].value = IF invert THEN in.data[position] ELSE v

\* C19, witness: the joint fit of a 3D paraboloid whose peak is 3/4 from the
\* middle on one axis and off the middle on the others has returned the peak
C19_Witness ==
    /\ StencilCall("PARABOLIC") /\ ~invert /\ pc = "done"
    /\ Len(in.sizes) = 3
    /\ IsParaboloidOf(in, << Q(-3, 4), Q(1, 4), Q(1, 2) >>, Q(16, 1))
    /\ out = << Result(<< Q(1, 4), Q(5, 4), Q(3, 2) >>, Q(16, 1)) >>

\* the sum of the squares of the components of c
SquaredNorm(c) == SquaredDistance([a \in 1 .. Len(c) |-> 0], c, Len(c))

\* the minimum over the axes k of the sum of c_i^2 over the axes i # k
Shortfall(c) ==
    LET S == {Sub(SquaredNorm(c), p1(c[k])) : k \in 1 .. Len(c)}
    IN  CHOOSE x \in S : \A y \in S : Le(x, y)

\* the offsets of the doctest, lines 635 and 659, in units of 1/10000
DoctestOffsets2D == << Q(3715, 1), Q(-396, 1) >>
DoctestOffsets3D == << Q(-2953, 1), Q(-52, 1), Q(4823, 1) >>

\* the shortfall of the doctest inputs is below the tolerances 0.003 and
\* 0.3 of lines 654 and 689, in units of 1/10000^2
WithinDoctestTolerances ==
    /\ Lt(Shortfall(DoctestOffsets2D), Q(300000, 1))
    /\ Lt(Shortfall(DoctestOffsets3D), Q(30000000, 1))

\* C20 as stated: on the same paraboloids the separable parabolic fit returns
\* position + c exactly and a value that does not exceed v and falls short
\* of it by exactly the minimum over axes k of sum_{i # k} c_i^2.
\* With invert = true the value is the middle sample, short by sum_i c_i^2.
C20_SeparableShortfallIsMinimum ==
    StencilCall("PARABOLIC_SEPARABLE") =>
        \A c \in {PeakOffsets(in)} : \A v \in {PeakValue(in, c)} :
            (IsParaboloidOf(in, c, v) /\ InWindow(c)) =>
                /\ fitCalls[1].coordinates = Displaced(c)
                /\ Le(fitCalls[1].value, v)
                /\ Sub(v, fitCalls[1].value) = Shortfall(c)

\* C20, amended: on the same paraboloids the separable parabolic fit returns
\* position + c exactly and a value that does not exceed v; with invert
\* false it falls short of v by exactly the minimum over axes k of
\* sum_{i # k} c_i^2, with invert true by sum_i c_i^2 (the middle sample);
\* for the offsets of the doctest the shortfall is within its tolerances
C20_SeparableFitOfParaboloid ==
    /\ WithinDoctestTolerances
    /\ StencilCall("PARABOLIC_SEPARABLE") =>
          \A c \in {PeakOffsets(in)} : \A v \in {PeakValue(in, c)} :
              (IsParaboloidOf(in, c, v) /\ InWindow(c)) =>
                  /\ fitCalls[1].err = ""
                  /\ fitCalls[1].coordinates = Displaced(c)
                  /\ Le(fitCalls[1].value, v)
                  /\ Sub(v, fitCalls[1].value) =
                        IF invert THEN SquaredNorm(c) ELSE Shortfall(c)

\* C20, witness: the separable fit of a 3D paraboloid with three different
\* offsets has returned the peak position and a value short of the peak by
\* the two smallest squares, 1/16 + 1/4
C20_Witness ==
    /\ StencilCall("PARABOLIC_SEPARABLE") /\ ~invert /\ pc = "done"
    /\ IsParaboloidOf(in, << Q(-3, 4), Q(1, 4), Q(1, 2) >>, Q(16, 1))
    /\ out = << Result(<< Q(1, 4), Q(5, 4), Q(3, 2) >>, Q(251, 16)) >>

\* the logarithm of the magnitude of a sample that is +-exp(n/d)
LogMagnitude(a) == IF a.k = "e" THEN Q(a.n, a.d) ELSE Zero

\* SubpixelLocationInternal has been called with method GAUSSIAN at the
\* middle of a 3x3 or 3x3x3 stencil of samples +-exp(n/d)
BumpCall ==
    /\ IsLocation /\ Len(fitCalls) = 1 /\ method = "GAUSSIAN"
    /\ in.sizes \in {<<3, 3>>, <<3, 3, 3>>}
    /\ position = Centre(in.sizes)
    /\ \A p \in DOMAIN in.data :
          in.data[p].k = "e" \/ (in.data[p].k = "q" /\ Abs(in.data[p].n) = 1 /\ in.data[p].d = 1)

\* the offsets of the peak of a bump g: log f(+1) - log f(-1) = 2 c
BumpOffsets(g) ==
    [a \in 1 .. Len(g.sizes) |->
        Div(Sub(LogMagnitude(g.data[Shift(Centre(g.sizes), a, 1)]),
                LogMagnitude(g.data[Shift(Centre(g.sizes), a, -1)])), Q(2, 1))]

\* the logarithm of the height of a bump g whose peak is at c
BumpLogHeight(g, c) ==
    Add(LogMagnitude(g.data[Centre(g.sizes)]), Div(SquaredNorm(c), Q(2, 1)))

\* the sign of the bump
BumpSign(g) == Sgn(g.data[Centre(g.sizes)])

\* C21 as stated: on a Gaussian bump, positive or negated, the method
\* Gaussian returns position + c and the height of the bump, v or -v.
\* The value is clamped against the middle sample in the direction the
\* polarity gives, so the height is returned only if the polarity matches.
C21_GaussianFitValueIsHeight ==
    BumpCall =>
        \A c \in {BumpOffsets(in)} : \A r \in {BumpLogHeight(in, c)} :
            in = GaussianBump(in.sizes, c, r, BumpSign(in)) =>
                /\ fitCalls[1].coordinates = Displaced(c)
                /\ fitCalls[1].value = E(BumpSign(in), r.n, r.d)

\* C21, amended: on a Gaussian bump with every |c_i| <= 0.75 the method
\* Gaussian returns position + c; the value is the height v of a positive
\* bump located as a maximum, and -v for a negated bump located as a
\* minimum; with the other polarity it is the middle sample
C21_GaussianFitRecoversBump ==
    BumpCall =>
        \A c \in {BumpOffsets(in)} : \A r \in {BumpLogHeight(in, c)} :
            (in = GaussianBump(in.sizes, c, r, BumpSign(in)) /\ InWindow(c)) =>
                /\ fitCalls[1].err = ""
                /\ fitCalls[1].accepted
                /\ fitCalls[1].coordinates = Displaced(c)
                /\ fitCalls[1].value =
                      IF invert <=> BumpSign(in) < 0
                      THEN E(BumpSign(in), r.n, r.d)
                      ELSE in.data[position]

\* C21, witness: the minimum of a negated 3D bump has been located at its
\* peak, off the middle on every axis, with the value -exp(1)
C21_Witness ==
    /\ BumpCall /\ invert /\ pc = "done"
    /\ in = GaussianBump(<<3, 3, 3>>, << Q(-3, 4), Q(1, 4), Q(1, 2) >>, Q(1, 1), -1)
    /\ out = << Result(<< Q(1, 4), Q(5, 4), Q(3, 2) >>, E(-1, 1, 1)) >>

\* the three samples along an axis around the position of call c, negated
\* when a minimum is located
PolarisedSamples(c, axis) ==
    LET t == AxisSamples(in, c.position, axis)
    IN  IF invert THEN << Neg(t[1]), Neg(t[2]), Neg(t[3]) >> ELSE t

\* the lowest of three values
LowestOf(u) == CHOOSE x \in {u[1], u[2], u[3]} : \A y \in {u[1], u[2], u[3]} : Le(x, y)

\* the offset the method Linear is said to give for the samples u: with the
\* minimum subtracted and m the sum, (u[+1] - u[-1]) / m, or 0 when m = 0
StatedLinearOffset(u) ==
    LET m == Sub(Add(Add(u[1], u[2]), u[3]), Scale(3, LowestOf(u)))
    IN  IF m = Zero THEN Zero ELSE Div(Sub(u[3], u[1]), m)

\* C22: the method Linear gives on every axis, for a grid of any
\* dimensionality, the position plus the stated offset of the three samples
\* along the axis, and the raw sample at the position as value, for both
\* polarities
C22_LinearOffsetAndRawValue ==
    \A k \in 1 .. Len(fitCalls) :
        (fitCalls[k].method = "LINEAR" /\ fitCalls[k].err = "") =>
            /\ Len(fitCalls[k].coordinates) = Dimensionality(in)
            /\ \A a \in 1 .. Dimensionality(in) :
                  fitCalls[k].coordinates[a] =
                     Add(Q(fitCalls[k].position[a], 1),
                         StatedLinearOffset(PolarisedSamples(fitCalls[k], a)))
            /\ fitCalls[k].value = in.data[fitCalls[k].position]

\* C22, witness: a minimum of a 4D grid was located by the method Linear,
\* with an offset on one axis and none on another
C22_Witness ==
    /\ IsLocation /\ pc = "done" /\ invert /\ method = "LINEAR"
    /\ Dimensionality(in) = 4
    /\ out[1].coordinates[1] # Q(position[1], 1)
    /\ out[1].coordinates[2] = Q(position[2], 1)
    /\ out[1].value = in.data[position]

\* m = t[-1] - 2 t[0] + t[+1] of the samples t
SecondDifference(t) == Add(Sub(t[1], Scale(2, t[2])), t[3])

\* the offset the method ParabolicSeparable is said to give for the samples t
StatedParabolicOffset(t) ==
    IF SecondDifference(t) = Zero THEN Zero
    ELSE Div(Sub(t[1], t[3]), Scale(2, SecondDifference(t)))

\* the interpolated peak of the samples t: t[0] - (t[-1] - t[+1])^2 / (8 m)
StatedParabolicPeak(t) ==
    Sub(t[2], Div(p1(Sub(t[1], t[3])), Scale(8, SecondDifference(t))))

\* the raw sample of call c and the peaks of the axes with m # 0
StatedCandidates(c) ==
    {in.data[c.position]} \cup
    {StatedParabolicPeak(AxisSamples(in, c.position, a)) :
        a \in {b \in 1 .. Dimensionality(in) :
                  SecondDifference(AxisSamples(in, c.position, b)) # Zero}}

\* the most extreme of the values S: the greatest, or the least for a minimum
MostExtreme(S, inv) ==
    CHOOSE x \in S : \A y \in S : IF inv THEN Le(x, y) ELSE Ge(x, y)

\* C23: the method ParabolicSeparable gives on every axis the position plus
\* (t[-1] - t[+1]) / (2 m), or the position when m = 0, and as value the most
\* extreme of the raw sample and the interpolated peaks of the axes with
\* m # 0
C23_SeparableOffsetAndExtremeValue ==
    \A k \in 1 .. Len(fitCalls) :
        (fitCalls[k].method = "PARABOLIC_SEPARABLE" /\ fitCalls[k].err = "") =>
            /\ Len(fitCalls[k].coordinates) = Dimensionality(in)
            /\ \A a \in 1 .. Dimensionality(in) :
                  fitCalls[k].coordinates[a] =
                     Add(Q(fitCalls[k].position[a], 1),
                         StatedParabolicOffset(AxisSamples(in, fitCalls[k].position, a)))
            /\ fitCalls[k].value = MostExtreme(StatedCandidates(fitCalls[k]), invert)

\* C23, witness: a minimum was located by the method ParabolicSeparable on a
\* grid with an axis where m = 0 and an axis with an offset, and the value is
\* below the raw sample
C23_Witness ==
    /\ IsLocation /\ pc = "done" /\ invert /\ method = "PARABOLIC_SEPARABLE"
    /\ Dimensionality(in) >= 2
    /\ \E a \in 1 .. Dimensionality(in) :
          SecondDifference(AxisSamples(in, position, a)) = Zero
    /\ \E a \in 1 .. Dimensionality(in) : out[1].coordinates[a] # Q(position[a], 1)
    /\ Lt(out[1].value, in.data[position])

\* call c is a joint fit on a 2D grid
JointCall2(c) ==
    c.method \in {"PARABOLIC", "GAUSSIAN"} /\ Dimensionality(in) = 2 /\ c.err = ""

\* the stencil call c fits: the samples, or their logarithms
FittedStencil2(c) ==
    LET s == Stencil2(in, c.position)
    IN  IF c.method = "GAUSSIAN" THEN log_transform(s, Lt(s[5], Zero)) ELSE s

\* the determinant a5^2 - 4 a3 a4 of coefficients a0 .. a5, held in a[1 .. 6]
StatedDeterminant(a) == Sub(Mul(a[6], a[6]), Mul(Scale(4, a[4]), a[5]))

\* the solution of [[2 a3, a5], [a5, 2 a4]] [x, y]^T = [-a1, -a2]^T by
\* Cramer's rule
StatedStationaryPoint(a) ==
    LET D == Sub(Mul(Scale(2, a[4]), Scale(2, a[5])), Mul(a[6], a[6]))
    IN  << Div(Sub(Mul(Neg(a[2]), Scale(2, a[5])), Mul(a[6], Neg(a[3]))), D),
           Div(Sub(Mul(Scale(2, a[4]), Neg(a[3])), Mul(Neg(a[2]), a[6])), D) >>

\* the quadratic form of the coefficients a at (x, y)
StatedQuadraticForm(a, x, y) ==
    Add(Add(Add(Add(Add(a[1], Mul(a[2], x)), Mul(a[3], y)), Mul(a[4], Mul(x, x))),
            Mul(a[5], Mul(y, y))), Mul(a[6], Mul(x, y)))

\* the value of the fit of call c at (x, y), the logarithm undone
StatedFitValue(c, a, x, y) ==
    IF c.method = "GAUSSIAN"
    THEN (IF Lt(Stencil2(in, c.position)[5], Zero)
          THEN Neg(Exp(StatedQuadraticForm(a, x, y)))
          ELSE Exp(StatedQuadraticForm(a, x, y)))
    ELSE StatedQuadraticForm(a, x, y)

\* v clamped to be no less extreme than the raw sample
StatedClamp(raw, v) == IF invert THEN Min(raw, v) ELSE Max(raw, v)

\* what C24 says of call c whose coefficients are a
StatedJointFit2(c, a) ==
    /\ c.accepted <=>
          /\ Ne(StatedDeterminant(a), Zero)
          /\ InWindow(StatedStationaryPoint(a))
    /\ c.accepted =>
          \A xy \in {StatedStationaryPoint(a)} :
             /\ c.coordinates = << Add(Q(c.position[1], 1), xy[1]),
                                   Add(Q(c.position[2], 1), xy[2]) >>
             /\ c.value = StatedClamp(c.raw, StatedFitValue(c, a, xy[1], xy[2]))

\* C24: the 2D joint fit is accepted if and only if the determinant is not
\* zero and both offsets lie in [-0.75, 0.75]; when accepted the offsets
\* solve the stationary-point system, the coordinates are position + (x, y)
\* and the value is the quadratic form at (x, y), clamped.
\* A stencil with a NaN (the logarithm of a negative neighbour) is accepted
\* with NaN offsets.
C24_JointFit2DAcceptance ==
    \A k \in {Len(fitCalls)} \ {0} :
        JointCall2(fitCalls[k]) =>
            \A a \in {FitCoefficients(w3x3, FittedStencil2(fitCalls[k]), 6, 9, 6)} :
                StatedJointFit2(fitCalls[k], a)

\* C24 for the stencils without NaN: what the claim says holds of them
C24_FiniteStencilAcceptance ==
    \A k \in {Len(fitCalls)} \ {0} :
        (/\ JointCall2(fitCalls[k])
         /\ \A j \in 1 .. 9 : ~IsNaN(FittedStencil2(fitCalls[k])[j])) =>
            \A a \in {FitCoefficients(w3x3, FittedStencil2(fitCalls[k]), 6, 9, 6)} :
                StatedJointFit2(fitCalls[k], a)

\* call c is a joint fit on a 3D grid
JointCall3(c) ==
    c.method \in {"PARABOLIC", "GAUSSIAN"} /\ Dimensionality(in) = 3 /\ c.err = ""

\* the stencil call c fits in 3D: the samples, or their logarithms
FittedStencil3(c) ==
    LET s == Stencil3(in, c.position)
    IN  IF c.method = "GAUSSIAN" THEN log_transform(s, Lt(s[14], Zero)) ELSE s

\* the matrix [[2 a4, a9, a8], [a9, 2 a5, a7], [a8, a7, 2 a6]] of the
\* coefficients a0 .. a9, held in a[1 .. 10]
StationaryMatrix3(a) ==
    << Scale(2, a[5]), a[10], a[9],
       a[10], Scale(2, a[6]), a[8],
       a[9], a[8], Scale(2, a[7]) >>

\* C25: a 3D joint fit whose stationary-point system is singular is
\* rejected, and the candidate is reported at its integer location.
\* quadratic_fit_3x3x3 has no determinant test: it returns true whenever the
\* solver's result passes the window test.
C25_SingularFit3DRejected ==
    \A k \in {Len(fitCalls)} \ {0} :
        JointCall3(fitCalls[k]) =>
            \A a \in {FitCoefficients(w3x3x3, FittedStencil3(fitCalls[k]), 10, 27, 18)} :
                Eq(Det3(StationaryMatrix3(a)), Zero) =>
                    /\ ~fitCalls[k].accepted
                    /\ fitCalls[k].coordinates = FloatArray(fitCalls[k].position)

\* the sizes of the mask do not match the grid, singleton expansion allowed
MaskSizeMismatch ==
    \/ Len(mask.sizes) > Len(in.sizes)
    \/ \E a \in 1 .. Len(mask.sizes) : mask.sizes[a] # in.sizes[a] /\ mask.sizes[a] # 1

\* the pixels a result may be computed from: those the detector gave the
\* label lab, at which the mask is set, off the border
AllowedRegion(detected, lab) ==
    {p \in DOMAIN detected :
        detected[p] = lab /\ MaskAt(mask, p) /\ ~OnGridBorder(p)}

\* the measured regions and the fitted candidates are made of allowed pixels
MaskedRegionsOnly(detected) ==
    /\ \A n \in 1 .. Len(measurement) :
          \E S \in {AllowedRegion(detected, measurement[n].label)} :
             /\ S # {}
             /\ measurement[n].Size = Cardinality(S)
             /\ measurement[n].Center = CenterOf(in.sizes, S)
             /\ measurement[n].Mean = MeanOf(in, S)
    /\ \A k \in 1 .. Len(fitCalls) :
          /\ detected[fitCalls[k].position] # 0
          /\ MaskAt(mask, fitCalls[k].position)
    /\ \A n \in 1 .. Len(out) :
          ~ToBeFitted(n) => out[n] = Result(measurement[n].Center, measurement[n].Mean)

\* C26: with a mask, every region measured and every candidate fitted by
\* SubpixelMaxima / SubpixelMinima is made only of extremum pixels at which
\* the mask is set, its centroid, size and mean are those of these pixels
\* alone, and a mask whose sizes do not match the grid makes the call fail
C26_MaskRestrictsRegions ==
    (IsExtrema /\ mask.forged) =>
        /\ (pc \in {"SE_loop", "done"} \/ (pc = "thrown" /\ fitCalls # << >>)) =>
              /\ ~MaskSizeMismatch
              /\ \E detected \in {LabelExtrema(in, invert)} : MaskedRegionsOnly(detected)
        /\ (pc \in {"SE_border", "SE_measure"}) => ~MaskSizeMismatch
        /\ (pc = "thrown" /\ MaskSizeMismatch) => out = << >> /\ err # ""

\* C26, witness: the mask hides one pixel of a plateau of two, and the call
\* returned the fit of the other pixel as a region of size 1
C26_Witness ==
    /\ IsExtrema /\ mask.forged /\ pc = "done" /\ Len(out) = 1
    /\ measurement[1].Size = 1 /\ Len(fitCalls) = 1
    /\ \E lab \in {LabelExtrema(in, invert)} :
          \E p \in DOMAIN lab, q \in DOMAIN lab :
             /\ p # q /\ lab[p] = lab[q] /\ lab[p] # 0
             /\ ~MaskAt(mask, p) /\ fitCalls[1].position = q

\* the coordinates of the samples SubpixelLocationInternal reads for call
\* c: the position and its two neighbours along every axis, and the whole
\* 3x3 or 3x3x3 stencil for a joint fit on a 2D or 3D grid
ReadCoordinates(c) ==
    {c.position} \cup
    (IF c.method = "INTEGER" THEN {}
     ELSE IF c.method \in {"PARABOLIC", "GAUSSIAN"}
          THEN (IF Len(c.position) \in {2, 3}
                THEN {[a \in 1 .. Len(c.position) |-> c.position[a] + d[a]] :
                         d \in [1 .. Len(c.position) -> {-1, 0, 1}]}
                ELSE {})
          ELSE {Shift(c.position, a, d) : a \in 1 .. Len(c.position), d \in {-1, 1}})

\* C27: SubpixelLocationInternal is invoked only with a position that has
\* 1 <= p[i] <= size[i] - 2 on every axis, so every sample it reads is
\* inside the grid
C27_ReadsInsideGrid ==
    \A k \in 1 .. Len(fitCalls) :
        /\ Len(fitCalls[k].position) = Dimensionality(in)
        /\ \A a \in 1 .. Dimensionality(in) :
              /\ 1 <= fitCalls[k].position[a]
              /\ fitCalls[k].position[a] <= in.sizes[a] - 2
        /\ ReadCoordinates(fitCalls[k]) \subseteq DOMAIN in.data

\* C27, witness: a plateau that fills a grid was reduced to its middle pixel
\* by the clearing of the border, and that pixel was fitted
C27_Witness ==
    /\ IsExtrema /\ ~mask.forged /\ pc = "done" /\ Len(fitCalls) = 1
    /\ fitCalls[1].method # "INTEGER"
    /\ \E lab \in {LabelExtrema(in, invert)} : \A p \in DOMAIN lab : lab[p] = 1

\* lines 470-503: SubpixelLocation( in, position, polarity, s_method ) as one
\* call, with the exception or the result it ends with
SubpixelLocationOf(input, p, pol, m) ==
    IF ~input.forged THEN [err |-> "IMAGE_NOT_FORGED", out |-> << >>]
    ELSE IF ~input.scalar THEN [err |-> "IMAGE_NOT_SCALAR", out |-> << >>]
    ELSE IF ~input.real THEN [err |-> "DATA_TYPE_NOT_SUPPORTED", out |-> << >>]
    ELSE IF Dimensionality(input) < 1
         THEN [err |-> "DIMENSIONALITY_NOT_SUPPORTED", out |-> << >>]
    ELSE IF Len(p) # Dimensionality(input)
         THEN [err |-> "ARRAY_PARAMETER_WRONG_LENGTH", out |-> << >>]
    ELSE IF \E a \in 1 .. Len(p) : OnBorder(input, p, a)
         THEN LET a == CHOOSE b \in 1 .. Len(p) :
                          /\ OnBorder(input, p, b)
                          /\ \A c \in 1 .. b - 1 : ~OnBorder(input, p, c)
                  v == At(input, p)
              IN  IF p[a] >= input.sizes[a]
                  THEN [err |-> "Initial coordinates out of image bounds", out |-> << >>]
                  ELSE IF v.err # "" THEN [err |-> v.err, out |-> << >>]
                  ELSE [err |-> "", out |-> << Result(FloatArray(p), v.value) >>]
    ELSE LET b == BooleanFromString(pol, "minimum", "maximum")
             pm == ParseMethod(m, Dimensionality(input))
         IN  IF b.err # "" THEN [err |-> b.err, out |-> << >>]
             ELSE IF pm.err # "" THEN [err |-> pm.err, out |-> << >>]
             ELSE Only({IF r.err # "" THEN [err |-> r.err, out |-> << >>]
                        ELSE [err |-> "", out |-> << Result(r.coordinates, r.value) >>] :
                        r \in {SubpixelLocationInternal(input, p, pm.method, b.value)}})

\* the polarity SubpixelLocation is to be called with for the extrema of
\* SubpixelMaxima (maximum) and of SubpixelMinima (minimum)
PolarityOfEntry == IF entry = "SubpixelMinima" THEN "minimum" ELSE "maximum"

\* the outcome of SubpixelLocation at the pixel of region n, with the method
\* and the polarity of the call of SubpixelMaxima / SubpixelMinima
LocationOfRegion(n) ==
    SubpixelLocationOf(in, RoundedCenter(measurement[n]), PolarityOfEntry, s_method)

\* C28: for a region of one pixel and a method other than Integer, the result
\* of SubpixelMaxima (SubpixelMinima) for the region is the result of
\* SubpixelLocation on the same grid at that pixel with polarity maximum
\* (minimum) and the same method, whatever the other candidates, the mask and
\* the place of the region in the order of processing; a call of
\* SubpixelLocation ends as SubpixelLocationOf says.  It is stated of the
\* latest result: every result is the latest in the state that follows it
C28_RegionResultIsSubpixelLocation ==
    /\ (IsExtrema /\ pc \in {"SE_loop", "done", "thrown"}) =>
          /\ \A n \in {Len(out)} \ {0} :
                ToBeFitted(n) =>
                    \E r \in {LocationOfRegion(n)} : r.err = "" /\ r.out = << out[n] >>
          /\ (pc = "thrown" /\ fitCalls # << >>) =>
                \E r \in {LocationOfRegion(ii + 1)} : r.err = err /\ r.out = << >>
    /\ (IsLocation /\ Finished) =>
          \E r \in {SubpixelLocationOf(in, position, polarity, s_method)} :
             r.err = err /\ r.out = out

\* C28, witness: SubpixelMinima fitted two regions of one pixel one after the
\* other, with different results, under a mask
C28_Witness ==
    /\ entry = "SubpixelMinima" /\ pc = "done" /\ mask.forged
    /\ Len(out) = 2 /\ Len(fitCalls) = 2
    /\ ToBeFitted(1) /\ ToBeFitted(2)
    /\ out[1].value # out[2].value
    /\ out[2].coordinates # FloatArray(fitCalls[2].position)

\* the offset of call c along an axis: refined coordinate minus position
OffsetOf(c, axis) == Sub(c.coordinates[axis], Q(c.position[axis], 1))

\* the offset o lies in [-h, h]
WithinHalfWidth(o, h) == Le(Neg(h), o) /\ Le(o, h)

\* the middle sample of call c is at least as extreme as both its neighbours
\* along the axis: >= both for a maximum, <= both for a minimum
CentreIsExtreme(c, axis) ==
    \E t \in {AxisSamples(in, c.position, axis)} :
        IF invert THEN Le(t[2], t[1]) /\ Le(t[2], t[3])
        ELSE Le(t[1], t[2]) /\ Le(t[3], t[2])

\* C29: with the method Linear the offset on every axis lies in [-1, 1] for
\* any three samples, and in [-1/2, 1/2] when the middle sample is at least
\* as extreme as both its neighbours on the axis
C29_LinearOffsetBounds ==
    \A k \in {Len(fitCalls)} \ {0} :
        (fitCalls[k].method = "LINEAR" /\ fitCalls[k].err = "") =>
            \A a \in 1 .. Dimensionality(in) :
                /\ WithinHalfWidth(OffsetOf(fitCalls[k], a), Q(1, 1))
                /\ CentreIsExtreme(fitCalls[k], a) =>
                      WithinHalfWidth(OffsetOf(fitCalls[k], a), Q(1, 2))

\* C29, witness: the method Linear gave the offset 1 or -1, the end of the
\* neighbourhood, on an axis where the middle sample is not the extreme one
C29_Witness ==
    /\ IsLocation /\ pc = "done" /\ method = "LINEAR" /\ Len(fitCalls) = 1
    /\ \E a \in 1 .. Dimensionality(in) :
          /\ ~CentreIsExtreme(fitCalls[1], a)
          /\ OffsetOf(fitCalls[1], a) \in {Q(1, 1), Q(-1, 1)}

\* the three samples of call c along an axis are not all equal
NotAllEqual(c, axis) ==
    \E t \in {AxisSamples(in, c.position, axis)} : t[1] # t[2] \/ t[3] # t[2]

\* x is at least as extreme as y for the polarity of the call
AtLeastAsExtreme(x, y) == IF invert THEN Le(x, y) ELSE Le(y, x)

\* C30: with the method ParabolicSeparable, on every axis where the middle
\* sample is at least as extreme as both neighbours and the three samples
\* are not all equal, the offset lies in [-1/2, 1/2] and the interpolated
\* peak of the axis is at least as extreme as the middle sample, so that the
\* returned value is at least as extreme as that peak; on the other axes the
\* offset is returned as computed and the call is not rejected
C30_SeparableOffsetBounds ==
    \A k \in {Len(fitCalls)} \ {0} :
        (fitCalls[k].method = "PARABOLIC_SEPARABLE") =>
            /\ fitCalls[k].err = "" /\ fitCalls[k].accepted
            /\ \A a \in 1 .. Dimensionality(in) :
                  (CentreIsExtreme(fitCalls[k], a) /\ NotAllEqual(fitCalls[k], a)) =>
                      \E ax \in {SeparableAxis(in, fitCalls[k].position, a, "PARABOLIC_SEPARABLE")} :
                         /\ WithinHalfWidth(OffsetOf(fitCalls[k], a), Q(1, 2))
                         /\ ax.update
                         /\ AtLeastAsExtreme(ax.b, fitCalls[k].raw)
                         /\ AtLeastAsExtreme(fitCalls[k].value, ax.b)

\* C30, witness: the middle sample is not the extreme one of its axis, and
\* the method ParabolicSeparable returned an offset above 3/4 that leaves the
\* grid
C30_Witness ==
    /\ IsLocation /\ pc = "done" /\ method = "PARABOLIC_SEPARABLE" /\ ~invert
    /\ Len(fitCalls) = 1 /\ fitCalls[1].accepted
    /\ ~CentreIsExtreme(fitCalls[1], 1)
    /\ Lt(Q(3, 4), OffsetOf(fitCalls[1], 1))
    /\ out = << Result(fitCalls[1].coordinates, fitCalls[1].raw) >>
    /\ Lt(Q(in.sizes[1] - 1, 1), out[1].coordinates[1])

=============================================================================
